---- MODULE Spec2Model ----
(***************************************************************************)
(* Model of the reference-resolution and import/export core of the         *)
(* metaobject-import-export tool: BulkHandleResolver (resolve.ts),         *)
(* runImport / runImportOne (importer.ts), metafieldsSetBatch              *)
(* (metafields.ts), runExport (exporter.ts) and the summary written by     *)
(* ImportProvider.confirmImport (cli.tsx).                       *)
(*                                                                         *)
(* Strings are sequences of tokens: "handle://shopify/Product/a" is        *)
(* <<"handle://shopify/", "Product", "/", "a">>.  JSON values are tagged   *)
(* records [k, v].                                                         *)
(***************************************************************************)
EXTENDS Integers, Sequences, FiniteSets, TLC

VARIABLES
    pc,          \* position of the running operation
    mode,        \* "full" (runImport), "one" (runImportOne), "resolver", "roundtrip"
    doc,         \* the ExportFile being imported: sequence of entries
    skipOnError, \* ImportOptions.skipOnError
    oneIndex,    \* index argument of runImportOne (1-based)
    store,       \* destination store: set of [kind, k1, k2, id]
    dstFields,   \* destination metaobject fields: set of [id, fields]
    metafields,  \* destination metafields written: set of [ownerId, namespace, key, type, value]
    nextId,      \* next identifier the destination assigns
    cache,       \* BulkHandleResolver.cache : ref -> id | NullId
    bulk,        \* the resolveBulk call in progress
    attempts,    \* ref -> number of remote resolution requests it was subject of
    returned,    \* refs for which resolve/resolveBulk has returned a result
    log,         \* remote requests issued, in order
    idx,         \* loop index i of Phase A (0-based count of entries handled)
    createdIds,  \* createdIdsByHandleKey : set of [key, id]
    status,      \* entryCompletionStatus of the run : set of [index, st]
    phaseB,      \* Phase B progress: items, chunk queue, collected user errors
    faults,      \* number of remote failures injected so far
    ui,          \* React state of ImportProvider: results, entryCompletionStatus
    closure,     \* state captured by the confirmImport callback when it was created
    summary,     \* the import result summary written at run completion
    src,         \* source store of an export: sequence of metaobject nodes
    exp,         \* export in progress
    calls,       \* number of calls made so far: of the resolver by its client, or of
                 \* selectFile after a run
    changes,     \* number of changes made to the destination store by others
    req          \* a request of ShopifyGraphQLClient and the back references collected with it

vars == <<pc, mode, doc, skipOnError, oneIndex, store, dstFields, metafields, nextId,
          cache, bulk, attempts, returned, log, idx, createdIds, status, phaseB,
          faults, ui, closure, summary, src, exp, calls, changes, req>>

(***************************************************************************)
(* Bounds                                                                  *)
(***************************************************************************)
MaxFaults == 2
MaxCalls == 3
MaxStoreChanges == 1
MaxReruns == 1
MaxRetries == 2

(***************************************************************************)
(* Strings as token sequences                                              *)
(***************************************************************************)
HandlePrefix == "handle://shopify/"
GidPrefix == "gid://shopify/"
Slash == "/"
Quote == "\""
NullId == <<"null">>

startsWith(s, tok) == Len(s) > 0 /\ s[1] = tok

RECURSIVE splitFrom(_, _, _, _)
splitFrom(s, i, cur, acc) ==
    IF i > Len(s) THEN Append(acc, cur)
    ELSE IF s[i] = Slash THEN splitFrom(s, i + 1, <<>>, Append(acc, cur))
    ELSE splitFrom(s, i + 1, Append(cur, s[i]), acc)

\* String.prototype.split('/'): the segments between slashes
split(s) == splitFrom(s, 1, <<>>, <<>>)

RECURSIVE join(_, _)
\* Array.prototype.join(sep) over a sequence of strings
join(segs, sep) ==
    IF Len(segs) = 0 THEN <<>>
    ELSE IF Len(segs) = 1 THEN segs[1]
    ELSE segs[1] \o sep \o join(Tail(segs), sep)

\* Array.prototype.slice(n) (0-based n)
sliceFrom(segs, n) == IF n >= Len(segs) THEN <<>> ELSE SubSeq(segs, n + 1, Len(segs))

\* ref.replace('handle://shopify/', '').split('/')
refParts(ref) == split(Tail(ref))

(***************************************************************************)
(* normaliseMetaobjectType: /^(.+?)--\d+--(.+)$/ -> '$' + $1 + ':' + $2    *)
(***************************************************************************)
DigitToks == {"123", "999", "258161311745"}

\* positions i where s[i] = "--", s[i+1] is a digit run, s[i+2] = "--",
\* with a non-empty prefix and a non-empty suffix
appSepPositions(s) ==
    {i \in 2..(Len(s) - 3) : s[i] = "--" /\ s[i + 1] \in DigitToks /\ s[i + 2] = "--"}

minOf(S) == CHOOSE x \in S : \A y \in S : x <= y

normaliseMetaobjectType(type) ==
    IF appSepPositions(type) = {} THEN type
    ELSE LET i == minOf(appSepPositions(type))
         IN <<"$">> \o SubSeq(type, 1, i - 1) \o <<":">> \o SubSeq(type, i + 3, Len(type))

\* normaliseAppNamespace is imported from @utils/schema; the same rewrite applied to
\* back-reference namespaces
normaliseAppNamespace(ns) == normaliseMetaobjectType(ns)

(***************************************************************************)
(* JSON values                                                             *)
(***************************************************************************)
Str(s) == [k |-> "str", v |-> s]
Arr(xs) == [k |-> "arr", v |-> xs]
Obj(ms) == [k |-> "obj", v |-> ms]        \* ms: sequence of [key, val]
Null == [k |-> "null", v |-> <<>>]
Undefined == [k |-> "undef", v |-> <<>>]

isHandleString(val) == val.k = "str" /\ startsWith(val.v, HandlePrefix)

\* a quote inside a string is written escaped, and read back unescaped
escape(str) == [i \in 1..Len(str) |-> IF str[i] = Quote THEN "\\\"" ELSE str[i]]
unescape(str) == [i \in 1..Len(str) |-> IF str[i] = "\\\"" THEN Quote ELSE str[i]]

RECURSIVE stringify(_)
RECURSIVE stringifyElems(_)
RECURSIVE stringifyMembers(_)
\* JSON.stringify
stringify(val) ==
    CASE val.k = "str" -> <<Quote>> \o escape(val.v) \o <<Quote>>
      [] val.k = "arr" -> <<"[">> \o stringifyElems(val.v) \o <<"]">>
      [] val.k = "obj" -> <<"{">> \o stringifyMembers(val.v) \o <<"}">>
      [] OTHER -> <<"null">>
stringifyElems(xs) ==
    IF Len(xs) = 0 THEN <<>>
    ELSE IF Len(xs) = 1 THEN stringify(xs[1])
    ELSE stringify(xs[1]) \o <<",">> \o stringifyElems(Tail(xs))
stringifyMembers(ms) ==
    IF Len(ms) = 0 THEN <<>>
    ELSE LET m == <<Quote, ms[1].key, Quote, ":">> \o stringify(ms[1].val)
         IN IF Len(ms) = 1 THEN m ELSE m \o <<",">> \o stringifyMembers(Tail(ms))

ParseFail == [ok |-> FALSE, val |-> Undefined, next |-> 0]

closingQuote(s, i) ==
    LET js == {j \in (i + 1)..Len(s) : s[j] = Quote}
    IN IF js = {} THEN 0 ELSE minOf(js)

RECURSIVE parseVal(_, _)
RECURSIVE parseElems(_, _, _)
RECURSIVE parseMembers(_, _, _)
\* JSON.parse, as a recursive descent over the tokens
parseVal(s, i) ==
    IF i > Len(s) THEN ParseFail
    ELSE IF s[i] = Quote THEN
        LET j == closingQuote(s, i)
        IN IF j = 0 THEN ParseFail
           ELSE [ok |-> TRUE, val |-> Str(unescape(SubSeq(s, i + 1, j - 1))), next |-> j + 1]
    ELSE IF s[i] = "null" THEN [ok |-> TRUE, val |-> Null, next |-> i + 1]
    ELSE IF s[i] = "[" THEN
        IF i + 1 <= Len(s) /\ s[i + 1] = "]"
        THEN [ok |-> TRUE, val |-> Arr(<<>>), next |-> i + 2]
        ELSE parseElems(s, i + 1, <<>>)
    ELSE IF s[i] = "{" THEN
        IF i + 1 <= Len(s) /\ s[i + 1] = "}"
        THEN [ok |-> TRUE, val |-> Obj(<<>>), next |-> i + 2]
        ELSE parseMembers(s, i + 1, <<>>)
    ELSE ParseFail
parseElems(s, i, acc) ==
    LET r == parseVal(s, i)
    IN IF ~r.ok \/ r.next > Len(s) THEN ParseFail
       ELSE IF s[r.next] = "," THEN parseElems(s, r.next + 1, Append(acc, r.val))
       ELSE IF s[r.next] = "]"
            THEN [ok |-> TRUE, val |-> Arr(Append(acc, r.val)), next |-> r.next + 1]
       ELSE ParseFail
parseMembers(s, i, acc) ==
    IF i + 3 > Len(s) \/ s[i] # Quote \/ s[i + 2] # Quote \/ s[i + 3] # ":" THEN ParseFail
    ELSE LET r == parseVal(s, i + 4)
             m == [key |-> s[i + 1], val |-> r.val]
         IN IF ~r.ok \/ r.next > Len(s) THEN ParseFail
            ELSE IF s[r.next] = "," THEN parseMembers(s, r.next + 1, Append(acc, m))
            ELSE IF s[r.next] = "}"
                 THEN [ok |-> TRUE, val |-> Obj(Append(acc, m)), next |-> r.next + 1]
            ELSE ParseFail

\* tryParseJson: the parsed value, or Undefined when JSON.parse throws
tryParseJson(text) ==
    LET r == parseVal(text, 1)
    IN IF r.ok /\ r.next = Len(text) + 1 THEN r.val ELSE Undefined

\* serialiseField: the wire form of a field value
serialiseField(value) ==
    IF value.k \in {"null", "undef"} THEN <<>>
    ELSE IF value.k \in {"arr", "obj"} THEN stringify(value)
    ELSE value.v

(***************************************************************************)
(* Symbolic references used by the model                                   *)
(***************************************************************************)
RefProductA == <<HandlePrefix, "Product", "/", "a">>
RefProductB == <<HandlePrefix, "Product", "/", "b">>
RefMetaT1H1 == <<HandlePrefix, "Metaobject", "/", "t1", "/", "h1">>
RefVariantAS1 == <<HandlePrefix, "ProductVariant", "/", "a", "/", "s1">>
RefImage == <<HandlePrefix, "MediaImage", "/", "https:", "/", "/", "cdn", "/", "x.png">>
RefUnknownKind == <<HandlePrefix, "Article", "/", "a">>

(***************************************************************************)
(* The destination store, as seen through the GraphQL queries              *)
(***************************************************************************)
Entity(kind, k1, k2, id) == [kind |-> kind, k1 |-> k1, k2 |-> k2, id |-> id]
Gid(kind, n) == <<GidPrefix, kind, "/", ToString(n)>>

\* the id of the entity of a kind with the given keys, or NullId
lookup(st, kind, k1, k2) ==
    LET es == {e \in st : e.kind = kind /\ e.k1 = k1 /\ e.k2 = k2}
    IN IF es = {} THEN NullId ELSE (CHOOSE e \in es : TRUE).id

\* metaobjects(type: $type): the nodes of that type; '$app:' names the caller's app
lookupMetaobject(st, type, handle) ==
    LET es == {e \in st : e.kind = "Metaobject" /\ e.k2 = handle
                          /\ normaliseMetaobjectType(e.k1) = type}
    IN IF es = {} THEN NullId ELSE (CHOOSE e \in es : TRUE).id

KnownKinds == {"Metaobject", "Product", "Page", "ProductVariant", "Collection", "MediaImage"}

refKind(ref) == refParts(ref)[1]
\* parts.slice(n).join('/')
refTail(ref, n) == join(sliceFrom(refParts(ref), n), <<Slash>>)
\* parts[1] is undefined: normaliseMetaobjectType(undefined) raises a TypeError
typeSegmentMissing(ref) == refKind(ref) = <<"Metaobject">> /\ Len(refParts(ref)) < 2
refType(ref) == normaliseMetaobjectType(refParts(ref)[2])
\* new URL(imageUrl) accepts the string
validUrl(url) == Len(url) > 0 /\ url[1] \in {"https:", "http:"}

(***************************************************************************)
(* HandleResolver.resolveUncached: the single-reference lookup             *)
(***************************************************************************)
Outcomes == {"ok", "throw", "errors"}

EmptyMap == [r \in {} |-> NullId]

\* does resolving this reference on its own issue a remote request
singleIsRemote(ref) ==
    /\ startsWith(ref, HandlePrefix)
    /\ refKind(ref)[1] \in KnownKinds
    /\ ~typeSegmentMissing(ref)
    /\ (refKind(ref) = <<"MediaImage">> => validUrl(refTail(ref, 1)))

storeAnswerOrphan(ref, st, nid) ==
    LET kind == refKind(ref)[1]
    IN CASE kind = "Metaobject" -> lookupMetaobject(st, refType(ref), refTail(ref, 2))
         [] kind \in {"Product", "Page", "Collection"} -> lookup(st, kind, refTail(ref, 1), <<>>)
         [] kind = "ProductVariant" ->
              IF Len(refParts(ref)) < 2 THEN NullId
              ELSE lookup(st, "ProductVariant", refParts(ref)[2], refTail(ref, 2))
         [] kind = "MediaImage" -> Gid("MediaImage", nid)
         [] OTHER -> NullId

\* the identifier the store answers for a reference
storeAnswer(ref, st, nid) ==
    LET kind == refKind(ref)[1]
    IN CASE kind = "Metaobject" -> lookupMetaobject(st, refType(ref), refTail(ref, 2))
         [] kind \in {"Product", "Page", "Collection"} -> lookup(st, kind, refTail(ref, 1), <<>>)
         [] kind = "ProductVariant" ->
              IF Len(refParts(ref)) < 2 \/ lookup(st, "Product", refParts(ref)[2], <<>>) = NullId
              THEN NullId
              ELSE lookup(st, "ProductVariant", refParts(ref)[2], refTail(ref, 2))
         [] kind = "MediaImage" -> Gid("MediaImage", nid)
         [] OTHER -> NullId

\* [throws, id, remote, created]: the outcome of HandleResolver.resolve on a fresh instance
resolveUncached(ref, st, nid, outcome) ==
    IF ~startsWith(ref, HandlePrefix) \/ refKind(ref)[1] \notin KnownKinds
    THEN [throws |-> FALSE, id |-> NullId, remote |-> FALSE, created |-> FALSE]
    ELSE IF typeSegmentMissing(ref)
    THEN [throws |-> TRUE, id |-> NullId, remote |-> FALSE, created |-> FALSE]
    ELSE IF refKind(ref) = <<"MediaImage">>
    THEN IF ~validUrl(refTail(ref, 1))
         THEN [throws |-> FALSE, id |-> NullId, remote |-> FALSE, created |-> FALSE]
         ELSE [throws |-> FALSE, remote |-> TRUE, created |-> outcome = "ok",
               id |-> IF outcome = "ok" THEN storeAnswer(ref, st, nid) ELSE NullId]
    ELSE [throws |-> outcome = "throw", remote |-> TRUE, created |-> FALSE,
          id |-> IF outcome = "ok" THEN storeAnswer(ref, st, nid) ELSE NullId]

(***************************************************************************)
(* BulkHandleResolver.resolveBulk                                          *)
(***************************************************************************)
RECURSIVE dedup(_, _)
\* the distinct members of a sequence, in order of first appearance
dedup(xs, seen) ==
    IF Len(xs) = 0 THEN <<>>
    ELSE IF xs[1] \in seen THEN dedup(Tail(xs), seen)
    ELSE <<xs[1]>> \o dedup(Tail(xs), seen \cup {xs[1]})

range(xs) == {xs[i] : i \in 1..Len(xs)}

ofKind(refs, kind) ==
    SelectSeq(refs, LAMBDA r : startsWith(r, HandlePrefix) /\ refKind(r) = <<kind>>)

variantProduct(ref) == IF Len(refParts(ref)) >= 2 THEN refParts(ref)[2] ELSE <<"undefined">>

Request(grp, key, refs) == [grp |-> grp, key |-> key, refs |-> refs]

oneRequest(grp, refs) == IF Len(refs) > 0 THEN <<Request(grp, <<>>, refs)>> ELSE <<>>

\* groupRefsByType raises when a Metaobject reference has no type segment
groupRefsThrows(refs) == \E i \in 1..Len(refs) : startsWith(refs[i], HandlePrefix) /\ typeSegmentMissing(refs[i])

\* groupRefsByType and the order in which resolveBulk works through the groups:
\* one request per kind for products, collections and pages, one per metaobject type,
\* one per parent product for variants, one per media image
groupRefsByType(refs) ==
    LET metas == ofKind(refs, "Metaobject")
        types == dedup([i \in 1..Len(metas) |-> refType(metas[i])], {})
        vars0 == ofKind(refs, "ProductVariant")
        prods == dedup([i \in 1..Len(vars0) |-> variantProduct(vars0[i])], {})
        imgs  == SelectSeq(ofKind(refs, "MediaImage"), LAMBDA r : validUrl(refTail(r, 1)))
    IN oneRequest("products", ofKind(refs, "Product"))
       \o oneRequest("collections", ofKind(refs, "Collection"))
       \o oneRequest("pages", ofKind(refs, "Page"))
       \o [i \in 1..Len(types) |->
             Request("metaobjects", types[i], SelectSeq(metas, LAMBDA r : refType(r) = types[i]))]
       \o [i \in 1..Len(prods) |->
             Request("variants", prods[i], SelectSeq(vars0, LAMBDA r : variantProduct(r) = prods[i]))]
       \o [i \in 1..Len(imgs) |-> Request("mediaImages", refTail(imgs[i], 1), <<imgs[i]>>)]

cachedRefsNone(refs, c) == {}

cachedRefs(refs, c) == range(refs) \cap DOMAIN c

\* the bulk call as it stands before its first request: cache hits are results already,
\* media images with an unusable URL resolve to null without a request.  issued counts
\* the remote requests of the call, api is apiCallsCount, vapi the apiCallsCount of
\* resolveProductVariantsBulk, and emitted holds, for every progress record that carries
\* apiCallsCount, that value next to the number of requests issued when it was emitted
bulkStart(refs, c, ret) ==
    LET hit == cachedRefs(refs, c)
        uncached == SelectSeq(refs, LAMBDA r : r \notin hit)
        badImgs == {r \in range(ofKind(uncached, "MediaImage")) : ~validUrl(refTail(r, 1))}
        throws == groupRefsThrows(uncached)
        queue == IF throws THEN <<>> ELSE groupRefsByType(uncached)
        \* the media image group of a call none of whose images has a usable URL
        imagesOnly == ~throws /\ Len(queue) = 0 /\ badImgs # {}
        Rec(a) == [api |-> a, issued |-> 0]
    IN [refs |-> refs,
        uncached |-> uncached,
        results |-> [r \in hit |-> c[r]] @@ [r \in badImgs |-> NullId],
        queue |-> queue,
        ret |-> ret,
        issued |-> 0,
        api |-> IF imagesOnly THEN 1 ELSE 0,
        vapi |-> 0,
        emitted |-> IF throws \/ Len(queue) > 0 THEN {}
                    ELSE IF imagesOnly THEN {Rec(0), Rec(1)}
                    ELSE {Rec(0)}]

NoBulk == [refs |-> <<>>, uncached |-> <<>>, results |-> EmptyMap, queue |-> <<>>, ret |-> "none",
           issued |-> 0, api |-> 0, vapi |-> 0, emitted |-> {}]

groupResultsUnset(q, st, nid, outcome) ==
    IF outcome = "ok" THEN [r \in range(q.refs) |-> storeAnswer(r, st, nid)] ELSE EmptyMap

\* the results one group's request adds; a failed request leaves the group's references null
groupResults(q, st, nid, outcome) ==
    [r \in range(q.refs) |-> IF outcome = "ok" THEN storeAnswer(r, st, nid) ELSE NullId]

cacheAllSkipped(c, results) == c

\* 'Cache all results': for (const [ref, id] of results) this.cache.set(ref, id)
cacheAll(c, results) == results @@ c

(***************************************************************************)
(* Bookkeeping of the remote requests                                      *)
(***************************************************************************)
bump(att, refs) ==
    [r \in DOMAIN att \cup refs |->
        (IF r \in DOMAIN att THEN att[r] ELSE 0) + (IF r \in refs THEN 1 ELSE 0)]

LogEntry(op, grp, key) == [op |-> op, grp |-> grp, key |-> key, fields |-> <<>>]

importVars == <<doc, skipOnError, oneIndex, dstFields, metafields, idx, createdIds,
                status, phaseB, ui, closure, summary>>
exportVars == <<src, exp, req>>

(***************************************************************************)
(* A resolver instance used directly by a client                           *)
(***************************************************************************)
ResolverRefs == {RefProductA, RefProductB, RefMetaT1H1, RefImage}
BulkInputs == {<<RefProductA, RefMetaT1H1, RefVariantAS1>>,
               <<RefProductB, RefImage, RefUnknownKind>>,
               \* variants of a product that does not exist and of one that does, and a
               \* media image whose URL is unusable
               <<<<HandlePrefix, "ProductVariant", "/", "b", "/", "s1">>,
                 <<HandlePrefix, "ProductVariant", "/", "b", "/", "s2">>,
                 RefVariantAS1,
                 <<HandlePrefix, "MediaImage", "/", "x.png">>>>}

ResolverStore == {Entity("Product", <<"a">>, <<>>, Gid("Product", 1)),
                  Entity("ProductVariant", <<"a">>, <<"s1">>, Gid("ProductVariant", 2)),
                  Entity("Metaobject", <<"t1">>, <<"h1">>, Gid("Metaobject", 3))}

\* entities somebody else may create or delete in the destination while the resolver lives
Creatable == {[kind |-> "Product", k1 |-> <<"b">>, k2 |-> <<>>],
              [kind |-> "Product", k1 |-> <<"a">>, k2 |-> <<>>]}

\* BulkHandleResolver.resolve(ref)
resolve(ref, outcome) ==
    /\ pc = "ridle"
    /\ calls < MaxCalls
    /\ LET hit == ref \in DOMAIN cache
           r == resolveUncached(ref, store, nextId, outcome)
           remote == ~hit /\ r.remote
       IN /\ (~remote => outcome = "ok")
          /\ (outcome # "ok" => faults < MaxFaults)
          /\ faults' = IF outcome # "ok" THEN faults + 1 ELSE faults
          /\ returned' = IF hit \/ ~r.throws THEN returned \cup {ref} ELSE returned
          /\ attempts' = IF remote THEN bump(attempts, {ref}) ELSE attempts
          /\ log' = IF remote THEN Append(log, LogEntry("resolve", "single", ref)) ELSE log
          /\ store' = IF remote /\ r.created
                       THEN store \cup {Entity("MediaImage", refTail(ref, 1), <<>>, r.id)}
                       ELSE store
          /\ nextId' = IF remote /\ r.created THEN nextId + 1 ELSE nextId
    /\ calls' = calls + 1
    /\ UNCHANGED <<pc, mode, cache, bulk, changes>>
    /\ UNCHANGED importVars
    /\ UNCHANGED exportVars

\* BulkHandleResolver.resolveBulk(refs), up to its first remote request
resolveBulk(refs) ==
    /\ pc = "ridle"
    /\ calls < MaxCalls
    /\ calls' = calls + 1
    /\ LET b == bulkStart(refs, cache, "client")
       IN IF groupRefsThrows(b.uncached)
          THEN UNCHANGED <<pc, bulk, cache, returned>>
          ELSE /\ bulk' = b
               /\ pc' = IF Len(b.queue) = 0 THEN "ridle" ELSE "bulk"
               /\ cache' = IF Len(b.queue) = 0 /\ Len(b.uncached) > 0
                            THEN cacheAll(cache, b.results) ELSE cache
               /\ returned' = IF Len(b.queue) = 0 THEN returned \cup DOMAIN b.results
                               ELSE returned
    /\ UNCHANGED <<mode, store, nextId, attempts, log, faults, changes>>
    /\ UNCHANGED importVars
    /\ UNCHANGED exportVars

\* somebody else creates or deletes an entity in the destination store: while a resolver
\* instance lives, or between two imports of a document
storeChange ==
    /\ \/ mode = "resolver"
       \/ mode \in {"full", "one"} /\ pc = "idle" /\ calls >= 1
    /\ changes < MaxStoreChanges
    /\ changes' = changes + 1
    /\ \/ \E c \in Creatable :
            /\ lookup(store, c.kind, c.k1, c.k2) # NullId
            /\ store' = {e \in store : ~(e.kind = c.kind /\ e.k1 = c.k1 /\ e.k2 = c.k2)}
            /\ nextId' = nextId
       \/ \E c \in Creatable :
            /\ lookup(store, c.kind, c.k1, c.k2) = NullId
            /\ store' = store \cup {Entity(c.kind, c.k1, c.k2, Gid(c.kind, nextId))}
            /\ nextId' = nextId + 1
    /\ UNCHANGED <<pc, mode, cache, bulk, attempts, returned, log, faults, calls>>
    /\ UNCHANGED importVars
    /\ UNCHANGED exportVars

(***************************************************************************)
(* importer.ts: field transformation                                       *)
(***************************************************************************)
looksLikeJson(s) == startsWith(s, "[") \/ startsWith(s, "{")

RECURSIVE collectHandleRefsFromValue(_)
\* the handle reference strings of a value, one per occurrence, in visiting order
collectHandleRefsFromValue(value) ==
    CASE value.k = "str" ->
            IF startsWith(value.v, HandlePrefix) THEN <<value.v>>
            ELSE IF looksLikeJson(value.v) /\ tryParseJson(value.v) # Undefined
                 THEN collectHandleRefsFromValue(tryParseJson(value.v))
            ELSE <<>>
      [] value.k = "arr" ->
            join([i \in 1..Len(value.v) |-> collectHandleRefsFromValue(value.v[i])], <<>>)
      [] value.k = "obj" ->
            join([i \in 1..Len(value.v) |-> collectHandleRefsFromValue(value.v[i].val)], <<>>)
      [] OTHER -> <<>>

fieldRefs(e) == join([i \in 1..Len(e.fields) |-> collectHandleRefsFromValue(e.fields[i].val)], <<>>)

\* e.backReferences ?? []
backRefsOf(e) == IF "backReferences" \in DOMAIN e THEN e.backReferences ELSE <<>>

ownerRefs(e) ==
    LET hs == SelectSeq(backRefsOf(e), LAMBDA br : startsWith(br.owner, HandlePrefix))
    IN [i \in 1..Len(hs) |-> hs[i].owner]

collectAllHandleReferencesOwnersOnly(entries) ==
    dedup(join([i \in 1..Len(entries) |-> ownerRefs(entries[i])], <<>>), {})

\* collectAllHandleReferences: field references and back-reference owners, as a Set
collectAllHandleReferences(entries) ==
    dedup(join([i \in 1..Len(entries) |-> fieldRefs(entries[i]) \o ownerRefs(entries[i])], <<>>), {})

resolveOrKeep(id, val) == IF id = NullId THEN val ELSE Str(id)

\* 'return id ?? undefined': an unresolved reference is skipped
resolveOrSkip(id, val) == IF id = NullId THEN Undefined ELSE Str(id)

isEmptyArray(val) == val.k = "arr" /\ Len(val.v) = 0

RECURSIVE transformValue(_, _)
\* transformValue, with m the answers of resolver.resolve for the references met
transformValue(val, m) ==
    CASE val.k = "str" ->
            IF startsWith(val.v, HandlePrefix) THEN resolveOrSkip(m[val.v], val)
            ELSE IF looksLikeJson(val.v) /\ tryParseJson(val.v) # Undefined
                 THEN transformValue(tryParseJson(val.v), m)
            ELSE val
      [] val.k = "arr" ->
            Arr(SelectSeq([i \in 1..Len(val.v) |-> transformValue(val.v[i], m)],
                          LAMBDA t : t # Undefined))
      [] val.k = "obj" ->
            LET ms == SelectSeq([i \in 1..Len(val.v) |->
                                    [key |-> val.v[i].key, val |-> transformValue(val.v[i].val, m)]],
                                LAMBDA x : x.val # Undefined /\ ~isEmptyArray(x.val))
            IN IF Len(ms) > 0 THEN Obj(ms) ELSE Undefined
      [] OTHER -> val

\* transformFieldsForImport
transformFieldsForImport(fields, m) ==
    SelectSeq([i \in 1..Len(fields) |->
                  [key |-> fields[i].key, val |-> transformValue(fields[i].val, m)]],
              LAMBDA x : x.val # Undefined /\ ~isEmptyArray(x.val))

\* the field list of the upsert input: Object.entries(fields).filter(...).map(serialiseField)
inputFields(fields) ==
    LET kept == SelectSeq(fields, LAMBDA x : x.val # Undefined /\ ~isEmptyArray(x.val))
    IN [i \in 1..Len(kept) |-> [key |-> kept[i].key, value |-> serialiseField(kept[i].val)]]

\* what resolver.resolve answers during a transform: the cache, else the single lookup
resolutionMap(refs, c, st, nid, fb) ==
    [r \in refs |-> IF r \in DOMAIN c THEN c[r] ELSE resolveUncached(r, st, nid, fb).id]

\* the occurrences for which resolver.resolve goes to the remote store
fallbackRequests(occs, c) == SelectSeq(occs, LAMBDA r : r \notin DOMAIN c /\ singleIsRemote(r))

\* resolver.resolve raises during the transform
transformThrows(occs, c, st, nid, fb) ==
    \E i \in 1..Len(occs) : occs[i] \notin DOMAIN c /\ resolveUncached(occs[i], st, nid, fb).throws

(***************************************************************************)
(* importer.ts: Phase 2, back references                                    *)
(***************************************************************************)
entryKey(e) == e.type \o <<Slash>> \o e.handle

hasKey(f, x) == x \in DOMAIN f

\* the pending list of runImport: one tuple per declared back reference
pendingOfEntry(e, i) ==
    [j \in 1..Len(backRefsOf(e)) |->
        [ownerRef |-> backRefsOf(e)[j].owner,
         namespace |-> normaliseAppNamespace(backRefsOf(e)[j].namespace),
         key |-> backRefsOf(e)[j].key,
         metaobjectKey |-> entryKey(e),
         entryIndex |-> i]]

pendingOf(entries) == join([i \in 1..Len(entries) |-> pendingOfEntry(entries[i], i - 1)], <<>>)

\* the owner identifier of a pending tuple, NullId when there is none
ownerIdOf(ownerRef, ownerResolutions) ==
    IF startsWith(ownerRef, HandlePrefix)
    THEN (IF hasKey(ownerResolutions, ownerRef) THEN ownerResolutions[ownerRef] ELSE NullId)
    ELSE IF startsWith(ownerRef, GidPrefix) THEN ownerRef ELSE NullId

markFailed(st, i) == (i :> "failed") @@ st

addToGroups(groups, gk, ownerId, p, metaobjectId) ==
    IF \E n \in 1..Len(groups) : groups[n].gk = gk
    THEN [n \in 1..Len(groups) |->
            IF groups[n].gk = gk
            THEN [groups[n] EXCEPT !.metaobjectIds = Append(@, metaobjectId),
                                   !.entryIndices = Append(@, p.entryIndex)]
            ELSE groups[n]]
    ELSE Append(groups, [gk |-> gk, ownerId |-> ownerId, namespace |-> p.namespace,
                         key |-> p.key, metaobjectIds |-> <<metaobjectId>>,
                         entryIndices |-> <<p.entryIndex>>])

RECURSIVE groupPending(_, _, _, _, _)
\* the loop over pending (importer.ts 213-251): [status, groups]
groupPending(pending, ownerResolutions, created, st, groups) ==
    IF Len(pending) = 0 THEN [status |-> st, groups |-> groups]
    ELSE LET p == pending[1]
             ownerId == ownerIdOf(p.ownerRef, ownerResolutions)
         IN IF ownerId = NullId \/ ownerId = <<>>
            THEN groupPending(Tail(pending), ownerResolutions, created,
                              markFailed(st, p.entryIndex), groups)
            ELSE IF ~hasKey(created, p.metaobjectKey)
            THEN groupPending(Tail(pending), ownerResolutions, created,
                              markFailed(st, p.entryIndex), groups)
            ELSE groupPending(Tail(pending), ownerResolutions, created, st,
                              addToGroups(groups, ownerId \o <<":">> \o p.namespace \o <<":">> \o p.key,
                                          ownerId, p, created[p.metaobjectKey]))

isListOverTwo(unique) == Len(unique) > 2

\* a group with exactly one distinct target is a single reference, else a list
isList(unique) == Len(unique) # 1

\* the items built from the groups (importer.ts 253-262)
itemsOf(groups) ==
    LET nonEmpty == SelectSeq(groups, LAMBDA g : Len(dedup(g.metaobjectIds, {})) > 0)
    IN [n \in 1..Len(nonEmpty) |->
          [ownerId |-> nonEmpty[n].ownerId, namespace |-> nonEmpty[n].namespace,
           key |-> nonEmpty[n].key,
           isList |-> isList(dedup(nonEmpty[n].metaobjectIds, {})),
           ids |-> dedup(nonEmpty[n].metaobjectIds, {}),
           entryIndices |-> nonEmpty[n].entryIndices]]

(***************************************************************************)
(* metafields.ts: metafieldsSetBatch                                       *)
(***************************************************************************)
ChunkSize == 25

\* the MetafieldsSetInput of an item
metafieldInput(item) ==
    [ownerId |-> item.ownerId, namespace |-> item.namespace, key |-> item.key,
     value |-> IF item.isList
               THEN stringify(Arr([n \in 1..Len(item.ids) |-> Str(item.ids[n])]))
               ELSE item.ids[1],
     type |-> IF item.isList THEN "list.metaobject_reference" ELSE "metaobject_reference"]

chunksOfFirstOnly(inputs, size) ==
    IF Len(inputs) = 0 THEN <<>>
    ELSE IF Len(inputs) <= size THEN <<inputs>>
    ELSE <<SubSeq(inputs, 1, size)>>

RECURSIVE chunksOf(_, _)
\* for (i = 0; i < inputs.length; i += size) chunks.push(inputs.slice(i, i + size))
chunksOf(inputs, size) ==
    IF Len(inputs) = 0 THEN <<>>
    ELSE IF Len(inputs) <= size THEN <<inputs>>
    ELSE <<SubSeq(inputs, 1, size)>> \o chunksOf(SubSeq(inputs, size + 1, Len(inputs)), size)

NoPhaseB == [items |-> <<>>, chunks |-> <<>>, sent |-> 0, allErrors |-> <<>>]

startBatch(items) ==
    [items |-> items,
     chunks |-> chunksOf([n \in 1..Len(items) |-> metafieldInput(items[n])], ChunkSize),
     sent |-> 0, allErrors |-> <<>>]

\* the destination after a metafieldsSet request that was accepted
writeMetafields(mf, chunk) ==
    {m \in mf : ~\E n \in 1..Len(chunk) :
                    /\ chunk[n].ownerId = m.ownerId
                    /\ chunk[n].namespace = m.namespace
                    /\ chunk[n].key = m.key}
    \cup range(chunk)

(***************************************************************************)
(* Documents and destination stores the import is run on                   *)
(***************************************************************************)
Field(key, val) == [key |-> key, val |-> val]
BackRef(ownerType, owner, ns, key) ==
    [ownerType |-> ownerType, owner |-> owner, namespace |-> ns, key |-> key]
Entry(type, handle, fields, brs) ==
    [type |-> type, handle |-> handle, fields |-> fields, backReferences |-> brs]

Docs ==
    \* three entries: references that resolve, references that do not, shared back references
    { <<Entry(<<"t1">>, <<"h1">>,
              <<Field("title", Str(<<"x">>)), Field("product", Str(RefProductA))>>,
              <<BackRef("Product", RefProductA, <<"custom">>, <<"k1">>)>>),
        Entry(<<"t1">>, <<"h2">>,
              <<Field("related", Str(RefMetaT1H1)), Field("missing", Str(RefProductB))>>,
              <<BackRef("Product", RefProductB, <<"custom">>, <<"k1">>)>>),
        Entry(<<"t2">>, <<"h1">>,
              <<Field("list", Arr(<<Str(RefMetaT1H1), Str(RefVariantAS1)>>)),
                Field("title", Str(<<"z">>))>>,
              <<BackRef("Product", RefProductA, <<"app", "--", "123", "--", "ns">>, <<"k2">>),
                BackRef("Product", RefProductA, <<"custom">>, <<"k1">>)>>)>>
    \* nested and JSON-encoded values, an unknown kind, a gid owner, a media image
    , <<Entry(<<"t1">>, <<"h1">>,
              <<Field("json", Str(stringify(Arr(<<Str(RefProductA), Str(RefProductB)>>)))),
                Field("onlyMissing", Arr(<<Str(RefProductB), Str(<<HandlePrefix, "ProductVariant", "/", "x", "/", "s1">>)>>)),
                Field("obj", Obj(<<Field("a", Str(RefProductB)), Field("b", Arr(<<Str(<<HandlePrefix, "Collection", "/", "a">>)>>))>>)),
                Field("broken", Str(<<"[", "oops">>)),
                Field("other", Str(RefUnknownKind)),
                Field("image", Str(RefImage)),
                Field("empty", Arr(<<>>)),
                Field("nothing", Null)>>,
              <<BackRef("Page", <<HandlePrefix, "Page", "/", "a">>, <<"custom">>, <<"k1">>),
                BackRef("Product", Gid("Product", 1), <<"custom">>, <<"k2">>)>>),
        Entry(<<"$", "app", ":", "T">>, <<"h1">>,
              <<Field("nested", Arr(<<Arr(<<Str(RefProductB)>>), Str(<<"y">>)>>))>>,
              <<>>)>>
    \* more back-reference groups than one metafieldsSet request takes
    , <<Entry(<<"t1">>, <<"h1">>, <<Field("title", Str(<<"x">>))>>,
              [n \in 1..(ChunkSize + 1) |->
                  BackRef("Product", RefProductA, <<"custom">>, <<"k", ToString(n)>>)]),
        Entry(<<"t1">>, <<"h2">>, <<Field("title", Str(<<"y">>))>>, <<>>)>>
    \* two entries whose back-reference groups fall into different metafieldsSet requests
    , <<Entry(<<"t1">>, <<"h1">>, <<Field("title", Str(<<"x">>))>>,
              [n \in 1..ChunkSize |->
                  BackRef("Product", RefProductA, <<"custom">>, <<"k", ToString(n)>>)]),
        Entry(<<"t1">>, <<"h2">>, <<Field("title", Str(<<"y">>))>>,
              <<BackRef("Product", RefProductA, <<"custom">>, <<"n1">>)>>)>>
    \* no references at all
    , <<Entry(<<"t1">>, <<"h1">>, <<Field("title", Str(<<"x">>))>>, <<>>),
        Entry(<<"t1">>, <<"h2">>, <<Field("title", Str(<<"y">>))>>, <<>>)>>
    \* a Metaobject reference without a type segment
    , <<Entry(<<"t1">>, <<"h1">>, <<Field("bad", Str(<<HandlePrefix, "Metaobject">>))>>, <<>>)>>
    \* a back reference declared twice, one record listed twice, an owner named by
    \* reference and by identifier, an owner that does not exist
    , <<Entry(<<"t1">>, <<"h1">>, <<Field("title", Str(<<"x">>))>>,
              <<BackRef("Product", RefProductA, <<"custom">>, <<"k1">>),
                BackRef("Product", RefProductA, <<"custom">>, <<"k1">>),
                BackRef("Product", RefProductA, <<"custom">>, <<"k2">>),
                BackRef("Product", RefProductA, <<"custom">>, <<"k3">>)>>),
        Entry(<<"t1">>, <<"h2">>, <<Field("title", Str(<<"y">>))>>,
              <<BackRef("Product", RefProductA, <<"custom">>, <<"k2">>),
                BackRef("Product", Gid("Product", 1), <<"custom">>, <<"k2">>)>>),
        Entry(<<"t1">>, <<"h1">>, <<Field("title", Str(<<"x">>))>>,
              <<BackRef("Product", RefProductA, <<"custom">>, <<"k3">>),
                BackRef("Product", RefProductB, <<"custom">>, <<"k1">>)>>)>>
    }

DstStore ==
    {Entity("Product", <<"a">>, <<>>, Gid("Product", 1)),
     Entity("ProductVariant", <<"a">>, <<"s1">>, Gid("ProductVariant", 2)),
     Entity("Collection", <<"a">>, <<>>, Gid("Collection", 3))}

(***************************************************************************)
(* The destination's metaobjectUpsert                                      *)
(***************************************************************************)
UpsertOutcomes == {"ok", "userErrors", "throw", "nodata"}

\* the destination stores '$app:T' under the raw type of the calling app
dstRawType(type) ==
    IF Len(type) >= 4 /\ type[1] = "$" /\ type[3] = ":"
    THEN <<type[2], "--", "999", "--">> \o SubSeq(type, 4, Len(type))
    ELSE type

\* the identifier metaobjectUpsert answers for (type, handle): the existing record's, else a new one
upsertId(st, type, handle, nid) ==
    IF lookupMetaobject(st, normaliseMetaobjectType(type), handle) # NullId
    THEN lookupMetaobject(st, normaliseMetaobjectType(type), handle)
    ELSE Gid("Metaobject", nid)

upsertStoreCreates(st, type, handle, nid) ==
    st \cup {Entity("Metaobject", dstRawType(type), handle, Gid("Metaobject", nid))}

upsertStore(st, type, handle, nid) ==
    IF lookupMetaobject(st, normaliseMetaobjectType(type), handle) # NullId THEN st
    ELSE st \cup {Entity("Metaobject", dstRawType(type), handle, Gid("Metaobject", nid))}

upsertNextId(st, type, handle, nid) ==
    IF lookupMetaobject(st, normaliseMetaobjectType(type), handle) # NullId THEN nid ELSE nid + 1

\* the record's fields after the upsert: the fields sent replace those of the same key
upsertFields(df, id, sent) ==
    LET old == IF hasKey(df, id) THEN df[id] ELSE <<>>
        kept == SelectSeq(old, LAMBDA f : ~\E n \in 1..Len(sent) : sent[n].key = f.key)
    IN (id :> (kept \o sent)) @@ df

(***************************************************************************)
(* Error texts                                                             *)
(***************************************************************************)
RemoteMessage == <<"is invalid">>
RequestError == <<"Error: ", "request failed">>
upsertError(e) == <<"Error: ", "Failed to upsert ">> \o entryKey(e) \o <<": ">> \o RemoteMessage

(***************************************************************************)
(* Progress observers: the onProgress callback of ImportProvider           *)
(***************************************************************************)
\* setEntryCompletionStatus(new Map(p.entryCompletionStatus))
progress(u, st) == [u EXCEPT !.status = st]

\* a progress record carrying an error: results.set(p.index, {status: 'failed', error})
progressError(u, st, index, err) ==
    [results |-> (index :> [status |-> "failed", error |-> err]) @@ u.results,
     status |-> st]

\* the observer of importOne merges the run's statuses into the ones it holds
progressMerge(u, st) == [u EXCEPT !.status = st @@ u.status]

progressErrorMerge(u, st, index, err) ==
    [results |-> (index :> [status |-> "failed", error |-> err]) @@ u.results,
     status |-> st @@ u.status]

NoUi == [results |-> EmptyMap, status |-> EmptyMap]
NoSummary == [written |-> FALSE, results |-> <<>>]

RECURSIVE bumpSeq(_, _)
bumpSeq(att, refs) == IF Len(refs) = 0 THEN att ELSE bumpSeq(bump(att, {refs[1]}), Tail(refs))

fault(outcome) == IF outcome = "ok" THEN 0 ELSE 1

loopDoneEarly(i, n) == i >= 1

\* the Phase 1 loop condition: for (let i = 0; i < entries.length; i += 1)
loopDone(i, n) == i >= n

rethrowsNever(skip) == FALSE

\* the catch block of an entry: 'if (opts.skipOnError) { ...; continue; } throw err'
rethrows(skip) == ~skip

confirmImportSharedCache ==
    /\ pc = "idle"
    /\ mode \in {"full", "roundtrip"}
    /\ closure' = ui
    /\ ui' = progress(ui, EmptyMap)
    /\ LET refs == collectAllHandleReferences(doc)
           b == bulkStart(refs, cache, "pre")
           throws == groupRefsThrows(b.uncached)
       IN /\ bulk' = IF Len(refs) = 0 \/ throws THEN NoBulk ELSE b
          /\ cache' = IF Len(refs) > 0 /\ ~throws /\ Len(b.queue) = 0
                       THEN cacheAll(cache, b.results) ELSE cache
          /\ returned' = IF Len(refs) > 0 /\ ~throws /\ Len(b.queue) = 0
                          THEN returned \cup DOMAIN b.results ELSE returned
          /\ pc' = IF Len(refs) = 0 THEN "phaseA"
                    ELSE IF throws THEN "raised"
                    ELSE IF Len(b.queue) = 0 THEN "phaseA" ELSE "bulk"
    /\ idx' = 0
    /\ status' = EmptyMap
    /\ createdIds' = EmptyMap
    /\ UNCHANGED <<mode, doc, skipOnError, oneIndex, store, dstFields, metafields, nextId,
                   attempts, log, phaseB, faults, summary, calls, changes>>
    /\ UNCHANGED exportVars

(***************************************************************************)
(* runImport                                                               *)
(***************************************************************************)
\* ImportProvider.confirmImport and runImport up to its first remote request
confirmImport ==
    /\ pc = "idle"
    /\ mode \in {"full", "roundtrip"}
    /\ closure' = ui
    /\ ui' = progress(ui, EmptyMap)
    /\ LET refs == collectAllHandleReferences(doc)
           b == bulkStart(refs, EmptyMap, "pre")
           throws == groupRefsThrows(b.uncached)
       IN /\ bulk' = IF Len(refs) = 0 \/ throws THEN NoBulk ELSE b
          /\ cache' = IF Len(refs) > 0 /\ ~throws /\ Len(b.queue) = 0
                       THEN cacheAll(EmptyMap, b.results) ELSE EmptyMap
          /\ returned' = IF Len(refs) > 0 /\ ~throws /\ Len(b.queue) = 0
                          THEN returned \cup DOMAIN b.results ELSE returned
          /\ pc' = IF Len(refs) = 0 THEN "phaseA"
                    ELSE IF throws THEN "raised"
                    ELSE IF Len(b.queue) = 0 THEN "phaseA" ELSE "bulk"
    /\ idx' = 0
    /\ status' = EmptyMap
    /\ createdIds' = EmptyMap
    /\ UNCHANGED <<mode, doc, skipOnError, oneIndex, store, dstFields, metafields, nextId,
                   attempts, log, phaseB, faults, summary, calls, changes>>
    /\ UNCHANGED exportVars

\* one iteration of the Phase 1 loop: transform the fields, upsert, record the outcome
upsertEntry(outcome, fb) ==
    /\ pc = "phaseA"
    /\ mode \in {"full", "roundtrip"}
    /\ idx < Len(doc)
    /\ LET e == doc[idx + 1]
           occs == fieldRefs(e)
           fbReqs == fallbackRequests(occs, cache)
           tthrows == transformThrows(occs, cache, store, nextId, fb)
           m == resolutionMap(range(occs), cache, store, nextId, fb)
           sent == inputFields(transformFieldsForImport(e.fields, m))
           ok == ~tthrows /\ outcome = "ok"
           failed == tthrows \/ outcome \in {"userErrors", "throw"}
           id == upsertId(store, e.type, e.handle, nextId)
           st2 == IF failed THEN markFailed(status, idx)
                  ELSE IF ok THEN (idx :> (IF Len(backRefsOf(e)) > 0 THEN "backreferences-pending"
                                           ELSE "backreferences-completed")) @@ status
                  ELSE status
           err == IF outcome = "userErrors" THEN upsertError(e) ELSE RequestError
       IN /\ (Len(fbReqs) = 0 => fb = "ok")
          /\ (tthrows => outcome = "ok")
          /\ faults + fault(outcome) + fault(fb) <= MaxFaults
          /\ faults' = faults + fault(outcome) + fault(fb)
          /\ attempts' = bumpSeq(attempts, fbReqs)
          /\ log' = log \o [n \in 1..Len(fbReqs) |-> LogEntry("resolve", "single", fbReqs[n])]
                         \o (IF tthrows THEN <<>>
                             ELSE <<[op |-> "upsert", grp |-> "entry", key |-> entryKey(e),
                                     fields |-> sent]>>)
          /\ store' = IF ok THEN upsertStore(store, e.type, e.handle, nextId) ELSE store
          /\ nextId' = IF ok THEN upsertNextId(store, e.type, e.handle, nextId) ELSE nextId
          /\ dstFields' = IF ok THEN upsertFields(dstFields, id, sent) ELSE dstFields
          /\ createdIds' = IF ok THEN (entryKey(e) :> id) @@ createdIds ELSE createdIds
          /\ status' = st2
          /\ ui' = IF failed /\ skipOnError THEN progressError(ui, st2, idx, err)
                    ELSE progress(ui, status)
          /\ idx' = IF failed /\ rethrows(skipOnError) THEN idx ELSE idx + 1
          /\ pc' = IF failed /\ rethrows(skipOnError) THEN "raised"
                    ELSE IF loopDone(idx + 1, Len(doc)) THEN "phaseB" ELSE "phaseA"
    /\ UNCHANGED <<mode, doc, skipOnError, oneIndex, metafields, cache, bulk, returned,
                   phaseB, closure, summary, calls, changes>>
    /\ UNCHANGED exportVars

\* Phase 2 up to the bulk resolution of the owners (importer.ts 136-206)
applyBackReferences ==
    /\ pc = "phaseB"
    /\ mode \in {"full", "roundtrip"}
    /\ ui' = progress(ui, status)
    /\ LET pending == pendingOf(doc)
           owners == [n \in 1..Len(pending) |-> pending[n].ownerRef]
           unique == dedup(SelectSeq(owners, LAMBDA r : startsWith(r, HandlePrefix)), {})
           b == bulkStart(unique, cache, "owners")
           throws == groupRefsThrows(b.uncached)
           now == Len(b.queue) = 0
       IN /\ pc' = IF Len(pending) = 0 THEN "returned"
                    ELSE IF throws THEN "raised"
                    ELSE IF now THEN "groupB" ELSE "bulk"
          /\ bulk' = IF Len(pending) = 0 \/ throws THEN bulk ELSE b
          /\ cache' = IF Len(pending) > 0 /\ ~throws /\ now /\ Len(b.uncached) > 0
                       THEN cacheAll(cache, b.results) ELSE cache
          /\ returned' = IF Len(pending) > 0 /\ ~throws /\ now
                          THEN returned \cup DOMAIN b.results ELSE returned
    /\ UNCHANGED <<mode, doc, skipOnError, oneIndex, store, dstFields, metafields, nextId,
                   attempts, log, idx, createdIds, status, phaseB, faults, closure, summary,
                   calls, changes>>
    /\ UNCHANGED exportVars

allIndices(items) == UNION {range(items[n].entryIndices) : n \in 1..Len(items)}

\* grouping of the pending tuples and building of the write items (importer.ts 208-285)
groupBackReferences ==
    /\ pc = "groupB"
    /\ mode \in {"full", "roundtrip"}
    /\ LET g == groupPending(pendingOf(doc), bulk.results, createdIds, status, <<>>)
           items == itemsOf(g.groups)
       IN /\ status' = g.status
          /\ ui' = progress(ui, g.status)
          /\ phaseB' = IF Len(items) = 0 THEN phaseB ELSE startBatch(items)
          /\ pc' = IF Len(items) = 0 THEN "returned" ELSE "chunks"
    /\ UNCHANGED <<mode, doc, skipOnError, oneIndex, store, dstFields, metafields, nextId,
                   cache, bulk, attempts, returned, log, idx, createdIds, faults, closure,
                   summary, calls, changes>>
    /\ UNCHANGED exportVars

(***************************************************************************)
(* runImportOne                                                            *)
(***************************************************************************)
\* ImportProvider.importOne and runImportOne up to its first remote request
importOne ==
    /\ pc = "idle"
    /\ mode = "one"
    /\ closure' = ui
    /\ idx' = 0
    /\ status' = EmptyMap
    /\ createdIds' = EmptyMap
    /\ IF oneIndex > Len(doc)
       THEN /\ pc' = "returned"
            /\ UNCHANGED <<bulk, cache, returned, ui>>
       ELSE LET refs == collectAllHandleReferences(<<doc[oneIndex]>>)
                b == bulkStart(refs, EmptyMap, "pre")
                throws == groupRefsThrows(b.uncached)
            IN /\ bulk' = IF Len(refs) = 0 \/ throws THEN NoBulk ELSE b
               /\ cache' = IF Len(refs) > 0 /\ ~throws /\ Len(b.queue) = 0
                            THEN cacheAll(EmptyMap, b.results) ELSE EmptyMap
               /\ returned' = IF Len(refs) > 0 /\ ~throws /\ Len(b.queue) = 0
                               THEN returned \cup DOMAIN b.results ELSE returned
               /\ pc' = IF Len(refs) = 0 THEN "phaseA"
                         ELSE IF throws THEN "raised"
                         ELSE IF Len(b.queue) = 0 THEN "phaseA" ELSE "bulk"
               /\ ui' = progressMerge(ui, EmptyMap)
    /\ UNCHANGED <<mode, doc, skipOnError, oneIndex, store, dstFields, metafields, nextId,
                   attempts, log, phaseB, faults, summary, calls, changes>>
    /\ UNCHANGED exportVars

\* the transform and upsert of runImportOne, up to the resolution of its owners
upsertOne(outcome, fb) ==
    /\ pc = "phaseA"
    /\ mode = "one"
    /\ LET e == doc[oneIndex]
           index == oneIndex - 1
           occs == fieldRefs(e)
           fbReqs == fallbackRequests(occs, cache)
           tthrows == transformThrows(occs, cache, store, nextId, fb)
           m == resolutionMap(range(occs), cache, store, nextId, fb)
           sent == inputFields(transformFieldsForImport(e.fields, m))
           ok == ~tthrows /\ outcome = "ok"
           unique == dedup(ownerRefs(e), {})
           b == bulkStart(unique, cache, "owners")
           withOwners == ok /\ Len(backRefsOf(e)) > 0
           othrows == withOwners /\ Len(unique) > 0 /\ groupRefsThrows(b.uncached)
           failed == tthrows \/ outcome \in {"userErrors", "throw"} \/ othrows
           id == upsertId(store, e.type, e.handle, nextId)
           st2 == IF failed THEN markFailed(status, index)
                  ELSE IF withOwners THEN (index :> "backreferences-pending") @@ status
                  ELSE (index :> "backreferences-completed") @@ status
           err == IF outcome = "userErrors" THEN upsertError(e) ELSE RequestError
           now == Len(unique) = 0 \/ Len(b.queue) = 0
       IN /\ (Len(fbReqs) = 0 => fb = "ok")
          /\ (tthrows => outcome = "ok")
          /\ faults + fault(outcome) + fault(fb) <= MaxFaults
          /\ faults' = faults + fault(outcome) + fault(fb)
          /\ attempts' = bumpSeq(attempts, fbReqs)
          /\ log' = log \o [n \in 1..Len(fbReqs) |-> LogEntry("resolve", "single", fbReqs[n])]
                         \o (IF tthrows THEN <<>>
                             ELSE <<[op |-> "upsert", grp |-> "entry", key |-> entryKey(e),
                                     fields |-> sent]>>)
          /\ store' = IF ok THEN upsertStore(store, e.type, e.handle, nextId) ELSE store
          /\ nextId' = IF ok THEN upsertNextId(store, e.type, e.handle, nextId) ELSE nextId
          /\ dstFields' = IF ok THEN upsertFields(dstFields, id, sent) ELSE dstFields
          /\ createdIds' = IF ok THEN (entryKey(e) :> id) @@ createdIds ELSE createdIds
          /\ status' = st2
          /\ idx' = 1
          /\ ui' = IF failed /\ skipOnError THEN progressErrorMerge(ui, st2, index, err)
                    ELSE IF failed THEN progressMerge(ui, status)
                    ELSE progressMerge(ui, st2)
          /\ bulk' = IF withOwners /\ ~othrows
                      THEN (IF Len(unique) = 0 THEN NoBulk ELSE b) ELSE bulk
          /\ cache' = IF withOwners /\ ~othrows /\ Len(unique) > 0 /\ now /\ Len(b.uncached) > 0
                       THEN cacheAll(cache, b.results) ELSE cache
          /\ returned' = IF withOwners /\ ~othrows /\ Len(unique) > 0 /\ now
                          THEN returned \cup DOMAIN b.results ELSE returned
          /\ pc' = IF failed THEN (IF rethrows(skipOnError) THEN "raised" ELSE "returned")
                    ELSE IF ~withOwners THEN "returned"
                    ELSE IF now THEN "groupB" ELSE "bulk"
    /\ UNCHANGED <<mode, doc, skipOnError, oneIndex, metafields, phaseB, closure, summary,
                   calls, changes>>
    /\ UNCHANGED exportVars

RECURSIVE groupOwn(_, _, _, _, _)
\* the loop over the entry's back references (importer.ts 449-472): unresolved owners are skipped
groupOwn(brs, ownerResolutions, createdId, index, groups) ==
    IF Len(brs) = 0 THEN groups
    ELSE LET ownerId == ownerIdOf(brs[1].owner, ownerResolutions)
             p == [namespace |-> normaliseAppNamespace(brs[1].namespace), key |-> brs[1].key,
                   entryIndex |-> index]
         IN IF ownerId = NullId \/ ownerId = <<>>
            THEN groupOwn(Tail(brs), ownerResolutions, createdId, index, groups)
            ELSE groupOwn(Tail(brs), ownerResolutions, createdId, index,
                          addToGroups(groups, ownerId \o <<":">> \o p.namespace \o <<":">> \o p.key,
                                      ownerId, p, createdId))

\* grouping and item building of runImportOne (importer.ts 443-500)
groupBackReferencesOne ==
    /\ pc = "groupB"
    /\ mode = "one"
    /\ LET e == doc[oneIndex]
           index == oneIndex - 1
           items == itemsOf(groupOwn(backRefsOf(e), bulk.results, createdIds[entryKey(e)], index, <<>>))
           st2 == IF Len(items) = 0 THEN (index :> "backreferences-completed") @@ status
                  ELSE status
       IN /\ status' = st2
          /\ ui' = progressMerge(ui, st2)
          /\ phaseB' = IF Len(items) = 0 THEN phaseB ELSE startBatch(items)
          /\ pc' = IF Len(items) = 0 THEN "returned" ELSE "chunks"
    /\ UNCHANGED <<mode, doc, skipOnError, oneIndex, store, dstFields, metafields, nextId,
                   cache, bulk, attempts, returned, log, idx, createdIds, faults, closure,
                   summary, calls, changes>>
    /\ UNCHANGED exportVars

(***************************************************************************)
(* The remote requests of a bulk resolution and of a batch of writes       *)
(***************************************************************************)
\* one request of resolveBulk: the group at the head of the queue is resolved; after the
\* last group the results are cached and the call returns to whoever made it
resolveGroupRequest(outcome) ==
    /\ pc = "bulk"
    /\ Len(bulk.queue) > 0
    /\ faults + fault(outcome) <= MaxFaults
    /\ faults' = faults + fault(outcome)
    /\ LET q == Head(bulk.queue)
           res == groupResults(q, store, nextId, outcome) @@ bulk.results
           last == Len(bulk.queue) = 1
           created == q.grp = "mediaImages" /\ outcome = "ok"
           index == IF mode = "one" THEN oneIndex - 1 ELSE 0
           err == IF outcome = "throw" THEN RequestError
                  ELSE <<"Error: ", "GraphQL errors in ", q.grp>>
           told == bulk.ret = "pre" /\ outcome # "ok" /\ q.grp \in {"products", "collections", "pages", "metaobjects"}
           \* the counters of the progress records (part_012 158-290, 573-662)
           firstOfGroup == bulk.issued = 0 \/ log[Len(log)].grp # q.grp
           lastOfGroup == last \/ bulk.queue[2].grp # q.grp
           Rec(a, n) == [api |-> a, issued |-> n]
           n0 == bulk.issued
           n1 == bulk.issued + 1
           v1 == IF q.grp = "variants" /\ outcome # "throw" THEN bulk.vapi + 1 ELSE bulk.vapi
           products == Cardinality({r.key : r \in {x \in range(groupRefsByType(bulk.uncached)) :
                                                       x.grp = "variants"}})
           api1 == CASE q.grp = "variants" -> IF lastOfGroup THEN bulk.api + products ELSE bulk.api
                     [] q.grp = "mediaImages" -> IF lastOfGroup THEN bulk.api + 1 ELSE bulk.api
                     [] OTHER -> IF outcome = "ok" THEN bulk.api + 1 ELSE bulk.api
           \* a media image group none of whose images led to a request comes last
           idleImages == last /\ q.grp # "mediaImages"
                         /\ Len(ofKind(bulk.uncached, "MediaImage")) > 0
           api2 == IF idleImages THEN api1 + 1 ELSE api1
           recs == CASE q.grp = "variants" ->
                           (IF firstOfGroup THEN {Rec(bulk.api, n0)} ELSE {})
                           \cup {Rec(bulk.api + bulk.vapi, n0), Rec(bulk.api + v1, n1)}
                           \cup (IF lastOfGroup THEN {Rec(api1, n1)} ELSE {})
                     [] q.grp = "mediaImages" ->
                           (IF firstOfGroup THEN {Rec(bulk.api, n0)} ELSE {})
                           \cup (IF lastOfGroup THEN {Rec(api1, n1)} ELSE {})
                     [] OTHER -> {Rec(bulk.api, n0), Rec(api1, n1)}
           final == IF last THEN {Rec(api1, n1), Rec(api2, n1)} ELSE {}
       IN /\ attempts' = bump(attempts, range(q.refs))
          /\ log' = Append(log, LogEntry("resolve", q.grp, q.key))
          /\ store' = IF created
                       THEN store \cup {Entity("MediaImage", q.key, <<>>, Gid("MediaImage", nextId))}
                       ELSE store
          /\ nextId' = IF created THEN nextId + 1 ELSE nextId
          /\ bulk' = [bulk EXCEPT !.queue = Tail(@), !.results = res, !.issued = n1,
                                   !.api = api2,
                                   !.vapi = IF q.grp = "variants" /\ ~lastOfGroup THEN v1 ELSE 0,
                                   !.emitted = @ \cup recs \cup final]
          /\ cache' = IF last THEN cacheAll(cache, res) ELSE cache
          /\ returned' = IF last THEN returned \cup DOMAIN res ELSE returned
          /\ ui' = IF ~told THEN ui
                    ELSE IF mode = "one" THEN progressErrorMerge(ui, status, index, err)
                    ELSE progressError(ui, status, index, err)
          /\ pc' = IF ~last THEN "bulk"
                    ELSE CASE bulk.ret = "client" -> "ridle"
                           [] bulk.ret = "pre" -> "phaseA"
                           [] OTHER -> "groupB"
    /\ UNCHANGED <<mode, doc, skipOnError, oneIndex, dstFields, metafields, idx, createdIds,
                   status, phaseB, closure, summary, calls, changes>>
    /\ UNCHANGED exportVars

completeAllAny(st, indices) == [i \in indices |-> "backreferences-completed"] @@ st

RECURSIVE completeAll(_, _)
\* entries still pending become completed (importer.ts 313-319)
completeAll(st, indices) ==
    IF indices = {} THEN st
    ELSE LET i == CHOOSE x \in indices : TRUE
             st2 == IF hasKey(st, i) /\ st[i] = "backreferences-pending"
                    THEN (i :> "backreferences-completed") @@ st ELSE st
         IN completeAll(st2, indices \ {i})

\* one metafieldsSet request of metafieldsSetBatch, and after the last one the rest of the
\* caller (importer.ts 288-329, 491-513)
metafieldsSetChunk(outcome) ==
    /\ pc = "chunks"
    /\ phaseB.sent < Len(phaseB.chunks)
    /\ faults + fault(outcome) <= MaxFaults
    /\ faults' = faults + fault(outcome)
    /\ LET chunk == phaseB.chunks[phaseB.sent + 1]
           last == phaseB.sent + 1 = Len(phaseB.chunks)
           errs == phaseB.allErrors \o (IF outcome = "userErrors" THEN <<RemoteMessage>> ELSE <<>>)
           msg == join(errs, <<"; ">>)
           all == allIndices(phaseB.items)
           index == oneIndex - 1
           full == mode # "one"
           thrown == outcome = "throw"
           rejected == ~thrown /\ last /\ Len(errs) > 0
           done == ~thrown /\ last /\ Len(errs) = 0
           st2 == IF full
                  THEN (IF rejected THEN [i \in all |-> "failed"] @@ status
                        ELSE IF done THEN completeAll(status, all) ELSE status)
                  ELSE (IF thrown \/ rejected THEN markFailed(status, index)
                        ELSE IF done THEN (index :> "backreferences-completed") @@ status
                        ELSE status)
       IN /\ log' = Append(log, [op |-> "metafieldsSet", grp |-> "chunk",
                                  key |-> <<ToString(phaseB.sent + 1)>>, fields |-> chunk,
                                  userErrors |-> IF outcome = "userErrors"
                                                 THEN <<RemoteMessage>> ELSE <<>>,
                                  raised |-> thrown])
          /\ metafields' = IF outcome = "ok" THEN writeMetafields(metafields, chunk) ELSE metafields
          /\ phaseB' = [phaseB EXCEPT !.sent = @ + 1, !.allErrors = errs]
          /\ status' = st2
          /\ ui' = IF full
                    THEN (IF rejected /\ skipOnError
                          THEN progressError(ui, st2, Len(doc), msg)
                          ELSE IF done THEN progress(ui, st2) ELSE ui)
                    ELSE (IF thrown /\ skipOnError
                          THEN progressErrorMerge(ui, st2, index, RequestError)
                          ELSE IF (rejected /\ skipOnError) \/ done THEN progressMerge(ui, st2)
                          ELSE ui)
          /\ pc' = IF thrown THEN (IF full \/ ~skipOnError THEN "raised" ELSE "returned")
                    ELSE IF ~last THEN "chunks"
                    ELSE IF rejected /\ ~skipOnError THEN "raised"
                    ELSE "returned"
    /\ UNCHANGED <<mode, doc, skipOnError, oneIndex, store, dstFields, nextId, cache, bulk,
                   attempts, returned, idx, createdIds, closure, summary, calls, changes>>
    /\ UNCHANGED exportVars

(***************************************************************************)
(* cli.tsx: what ImportProvider does when the run settles                  *)
(***************************************************************************)
\* the results array of the summary, built from the maps the callback holds
summaryOf(entries, results, ecs) ==
    [n \in 1..Len(entries) |->
        [index |-> n - 1,
         key |-> entryKey(entries[n]),
         status |-> IF hasKey(results, n - 1) THEN results[n - 1].status
                    ELSE IF hasKey(ecs, n - 1) /\ ecs[n - 1] = "backreferences-completed"
                    THEN "success" ELSE "pending",
         completionStatus |-> IF hasKey(ecs, n - 1) THEN ecs[n - 1] ELSE "undefined",
         error |-> IF hasKey(results, n - 1) THEN results[n - 1].error ELSE <<>>]]

\* the .then handler of confirmImport: the summary is built from the results and
\* entryCompletionStatus of the render in which confirmImport was created
importResolved ==
    /\ pc = "returned"
    /\ mode \in {"full", "roundtrip"}
    /\ summary' = [written |-> TRUE, results |-> summaryOf(doc, closure.results, closure.status)]
    /\ pc' = "finished"
    /\ UNCHANGED <<mode, doc, skipOnError, oneIndex, store, dstFields, metafields, nextId,
                   cache, bulk, attempts, returned, log, idx, createdIds, status, phaseB,
                   faults, ui, closure, calls, changes>>
    /\ UNCHANGED exportVars

\* the .catch handler of confirmImport: no summary is written
importRejected ==
    /\ pc = "raised"
    /\ mode \in {"full", "roundtrip"}
    /\ pc' = "aborted"
    /\ UNCHANGED <<mode, doc, skipOnError, oneIndex, store, dstFields, metafields, nextId,
                   cache, bulk, attempts, returned, log, idx, createdIds, status, phaseB,
                   faults, ui, closure, summary, calls, changes>>
    /\ UNCHANGED exportVars

\* the .then handler of importOne
importOneResolved ==
    /\ pc = "returned"
    /\ mode = "one"
    /\ LET index == oneIndex - 1
           completed == hasKey(closure.status, index)
                        /\ closure.status[index] = "backreferences-completed"
       IN ui' = IF completed
                THEN [ui EXCEPT !.results = (index :> [status |-> "success", error |-> <<>>]) @@ @]
                ELSE ui
    /\ pc' = "finished"
    /\ UNCHANGED <<mode, doc, skipOnError, oneIndex, store, dstFields, metafields, nextId,
                   cache, bulk, attempts, returned, log, idx, createdIds, status, phaseB,
                   faults, closure, summary, calls, changes>>
    /\ UNCHANGED exportVars

\* the .catch handler of importOne
importOneRejected ==
    /\ pc = "raised"
    /\ mode = "one"
    /\ ui' = progressErrorMerge(ui, (oneIndex - 1) :> "failed", oneIndex - 1, RequestError)
    /\ pc' = "aborted"
    /\ UNCHANGED <<mode, doc, skipOnError, oneIndex, store, dstFields, metafields, nextId,
                   cache, bulk, attempts, returned, log, idx, createdIds, status, phaseB,
                   faults, closure, summary, calls, changes>>
    /\ UNCHANGED exportVars

(***************************************************************************)
(* The import of a document                                                *)
(***************************************************************************)
\* the state of an export: the types still to fetch, allEntries, dependsOnMap and the
\* output file
NoExp == [types |-> <<>>, retainIds |-> FALSE, entries |-> <<>>, deps |-> <<>>,
          file |-> [written |-> FALSE, count |-> 0, entries |-> <<>>]]

Init ==
    /\ pc = "idle"
    /\ mode \in {"full", "one"}
    /\ doc \in Docs
    /\ skipOnError \in BOOLEAN
    /\ oneIndex \in 1..3
    /\ (mode = "full" => oneIndex = 1)
    /\ store = DstStore
    /\ dstFields = EmptyMap
    /\ metafields = {}
    /\ nextId = 4
    /\ cache = EmptyMap
    /\ bulk = NoBulk
    /\ attempts = EmptyMap
    /\ returned = {}
    /\ log = <<>>
    /\ idx = 0
    /\ createdIds = EmptyMap
    /\ status = EmptyMap
    /\ phaseB = NoPhaseB
    /\ faults = 0
    /\ ui = NoUi
    /\ closure = NoUi
    /\ summary = NoSummary
    /\ src = <<>>
    /\ exp = NoExp
    /\ calls = 0
    /\ changes = 0
    /\ req = <<>>

Next ==
    \/ confirmImport
    \/ \E outcome \in UpsertOutcomes, fb \in Outcomes : upsertEntry(outcome, fb)
    \/ applyBackReferences
    \/ groupBackReferences
    \/ importOne
    \/ \E outcome \in UpsertOutcomes, fb \in Outcomes : upsertOne(outcome, fb)
    \/ groupBackReferencesOne
    \/ \E outcome \in Outcomes : resolveGroupRequest(outcome)
    \/ \E outcome \in UpsertOutcomes : metafieldsSetChunk(outcome)
    \/ importResolved
    \/ importRejected
    \/ importOneResolved
    \/ importOneRejected

Spec == Init /\ [][Next]_vars

(***************************************************************************)
(* The same document imported again                                        *)
(***************************************************************************)
\* ImportProvider.selectFile on the file of a settled run: the results and the completion
\* statuses are emptied and the document can be confirmed again; the bookkeeping of the
\* remote requests starts over with the new run
selectFile ==
    /\ pc \in {"finished", "aborted"}
    /\ mode \in {"full", "one"}
    /\ calls < MaxReruns
    /\ calls' = calls + 1
    /\ pc' = "idle"
    /\ ui' = NoUi
    /\ log' = <<>>
    /\ attempts' = EmptyMap
    /\ returned' = {}
    /\ UNCHANGED <<mode, doc, skipOnError, oneIndex, store, dstFields, metafields, nextId,
                   cache, bulk, idx, createdIds, status, phaseB, faults, closure, summary,
                   changes>>
    /\ UNCHANGED exportVars

NextTwice == Next \/ selectFile \/ storeChange

SpecTwice == Init /\ [][NextTwice]_vars

(***************************************************************************)
(* A resolver instance and its client                                      *)
(***************************************************************************)
InitResolver ==
    /\ pc = "ridle"
    /\ mode = "resolver"
    /\ doc = <<>>
    /\ skipOnError = FALSE
    /\ oneIndex = 1
    /\ store = ResolverStore
    /\ dstFields = EmptyMap
    /\ metafields = {}
    /\ nextId = 4
    /\ cache = EmptyMap
    /\ bulk = NoBulk
    /\ attempts = EmptyMap
    /\ returned = {}
    /\ log = <<>>
    /\ idx = 0
    /\ createdIds = EmptyMap
    /\ status = EmptyMap
    /\ phaseB = NoPhaseB
    /\ faults = 0
    /\ ui = NoUi
    /\ closure = NoUi
    /\ summary = NoSummary
    /\ src = <<>>
    /\ exp = NoExp
    /\ calls = 0
    /\ changes = 0
    /\ req = <<>>

NextResolver ==
    \/ \E ref \in ResolverRefs, outcome \in Outcomes : resolve(ref, outcome)
    \/ \E refs \in BulkInputs : resolveBulk(refs)
    \/ \E outcome \in Outcomes : resolveGroupRequest(outcome)
    \/ storeChange

SpecResolver == InitResolver /\ [][NextResolver]_vars

(***************************************************************************)
(* exporter.ts: runExport                                                  *)
(***************************************************************************)
Resource(typename, type, handle, productHandle, sku) ==
    [typename |-> typename, type |-> type, handle |-> handle,
     productHandle |-> productHandle, sku |-> sku]

\* toHandleRef: the symbolic reference of a resource, <<>> when it has none
toHandleRef(resource) ==
    CASE resource.typename = "Metaobject" ->
            IF Len(resource.handle) > 0 /\ Len(resource.type) > 0
            THEN <<HandlePrefix, "Metaobject", Slash>> \o normaliseMetaobjectType(resource.type)
                 \o <<Slash>> \o resource.handle
            ELSE <<>>
      [] resource.typename \in {"Product", "Page", "Collection"} ->
            IF Len(resource.handle) > 0
            THEN <<HandlePrefix, resource.typename, Slash>> \o resource.handle
            ELSE <<>>
      [] resource.typename = "ProductVariant" ->
            IF Len(resource.productHandle) > 0 /\ Len(resource.sku) > 0
            THEN <<HandlePrefix, "ProductVariant", Slash>> \o resource.productHandle
                 \o <<Slash>> \o resource.sku
            ELSE <<>>
      [] OTHER -> <<>>

\* a field of a MetaobjectNode; reference and references.nodes are sequences of resources
NodeField(key, value, jsonValue, reference, references) ==
    [key |-> key, value |-> value, jsonValue |-> jsonValue,
     reference |-> reference, references |-> references]

\* extractHandleRefsFromFields([f])
extractHandleRefsFromFields(f) ==
    LET rs == f.reference \o f.references
        hs == [i \in 1..Len(rs) |-> toHandleRef(rs[i])]
    IN dedup(SelectSeq(hs, LAMBDA h : Len(h) > 0), {})

\* field.jsonValue ?? field.value ?? null
baseValue(f) == IF f.jsonValue.k \notin {"undef", "null"} THEN f.jsonValue ELSE f.value

isGid(val) == val.k = "str" /\ startsWith(val.v, GidPrefix)

\* normaliseFieldForExport: the exported value of a field
normaliseFieldForExport(f, retainIds) ==
    LET handleRefs == extractHandleRefsFromFields(f)
    IN IF retainIds THEN baseValue(f)
       ELSE IF Len(handleRefs) > 0
       THEN (IF Len(f.references) > 0
             THEN Arr([i \in 1..Len(handleRefs) |-> Str(handleRefs[i])])
             ELSE Str(handleRefs[1]))
       ELSE baseValue(f)

\* the dependencies normaliseFieldForExport records for a field
fieldDeps(f, retainIds) ==
    IF retainIds THEN <<>>
    ELSE IF Len(extractHandleRefsFromFields(f)) > 0 THEN extractHandleRefsFromFields(f)
    ELSE IF isGid(baseValue(f)) THEN <<baseValue(f).v>>
    ELSE <<>>

\* the ExportEntry built from a node
exportEntry(node, retainIds) ==
    [type |-> normaliseMetaobjectType(node.type),
     handle |-> node.handle,
     fields |-> [i \in 1..Len(node.fields) |->
                    Field(node.fields[i].key, normaliseFieldForExport(node.fields[i], retainIds))]]

\* the dependsOnMap entry of a node: keyed by the node's own type and handle
nodeDeps(node, retainIds) ==
    [key |-> node.type \o <<Slash>> \o node.handle,
     deps |-> dedup(join([i \in 1..Len(node.fields) |-> fieldDeps(node.fields[i], retainIds)], <<>>), {})]

\* ordered maps (Map): sequences of [k, v] in insertion order
mapHas(m, k) == \E i \in 1..Len(m) : m[i].k = k
mapGet(m, k, default) ==
    IF mapHas(m, k) THEN m[CHOOSE i \in 1..Len(m) : m[i].k = k].v ELSE default
mapSet(m, k, v) ==
    IF mapHas(m, k) THEN [i \in 1..Len(m) |-> IF m[i].k = k THEN [k |-> k, v |-> v] ELSE m[i]]
    ELSE Append(m, [k |-> k, v |-> v])

MetaobjectRefPrefix == <<HandlePrefix, "Metaobject", Slash>>
isMetaobjectRef(dep) == Len(dep) >= 3 /\ SubSeq(dep, 1, 3) = MetaobjectRefPrefix

\* keyFor: handle://shopify/Metaobject/<type>/<handle>
keyFor(e) == MetaobjectRefPrefix \o e.type \o <<Slash>> \o e.handle

RECURSIVE addEdges(_, _, _)
\* the edges one dependsOnMap entry adds (exporter.ts 106-113)
addEdges(fromKey, deps, g) ==
    IF Len(deps) = 0 THEN g
    ELSE IF isMetaobjectRef(deps[1]) /\ mapHas(g.graph, deps[1])
    THEN addEdges(fromKey, Tail(deps),
                  [graph |-> mapSet(g.graph, deps[1], dedup(Append(mapGet(g.graph, deps[1], <<>>), fromKey), {})),
                   inDegree |-> mapSet(g.inDegree, fromKey, mapGet(g.inDegree, fromKey, 0) + 1)])
    ELSE addEdges(fromKey, Tail(deps), g)

RECURSIVE addAllEdges(_, _)
addAllEdges(dependsOn, g) ==
    IF Len(dependsOn) = 0 THEN g
    ELSE addAllEdges(Tail(dependsOn),
                     addEdges(MetaobjectRefPrefix \o dependsOn[1].key, dependsOn[1].deps, g))

RECURSIVE relax(_, _, _)
\* the inner loop of the queue: lower the in-degree of each successor
relax(tos, inDegree, queue) ==
    IF Len(tos) = 0 THEN [inDegree |-> inDegree, queue |-> queue]
    ELSE LET d == mapGet(inDegree, tos[1], 0) - 1
         IN relax(Tail(tos), mapSet(inDegree, tos[1], d),
                  IF d = 0 THEN Append(queue, tos[1]) ELSE queue)

RECURSIVE drain(_, _, _, _)
\* while (queue.length) { ... }
drain(queue, ordered, inDegree, graph) ==
    IF Len(queue) = 0 THEN ordered
    ELSE LET r == relax(mapGet(graph, Head(queue), <<>>), inDegree, Tail(queue))
         IN drain(r.queue, Append(ordered, Head(queue)), r.inDegree, graph)

topoSortEntriesOrderedOnly(entries, dependsOn) ==
    LET keys == [n \in 1..Len(entries) |-> keyFor(entries[n])]
        g0 == [graph |-> [n \in 1..Len(dedup(keys, {})) |-> [k |-> dedup(keys, {})[n], v |-> <<>>]],
               inDegree |-> [n \in 1..Len(dedup(keys, {})) |-> [k |-> dedup(keys, {})[n], v |-> 0]]]
        g == addAllEdges(dependsOn, g0)
        zero == SelectSeq(g.inDegree, LAMBDA x : x.v = 0)
        ordered == drain([n \in 1..Len(zero) |-> zero[n].k], <<>>, g.inDegree, g.graph)
        known == SelectSeq(ordered, LAMBDA k : k \in range(keys))
    IN [n \in 1..Len(known) |->
          entries[CHOOSE m \in 1..Len(entries) :
                      /\ keys[m] = known[n]
                      /\ \A m2 \in 1..Len(entries) : keys[m2] = known[n] => m2 <= m]]

\* topoSortEntries
topoSortEntries(entries, dependsOn) ==
    LET keys == [n \in 1..Len(entries) |-> keyFor(entries[n])]
        g0 == [graph |-> [n \in 1..Len(dedup(keys, {})) |-> [k |-> dedup(keys, {})[n], v |-> <<>>]],
               inDegree |-> [n \in 1..Len(dedup(keys, {})) |-> [k |-> dedup(keys, {})[n], v |-> 0]]]
        g == addAllEdges(dependsOn, g0)
        zero == SelectSeq(g.inDegree, LAMBDA x : x.v = 0)
        ordered == drain([n \in 1..Len(zero) |-> zero[n].k], <<>>, g.inDegree, g.graph)
        allKeys == ordered \o SelectSeq(keys, LAMBDA k : k \notin range(ordered))
        known == SelectSeq(allKeys, LAMBDA k : k \in range(keys))
    IN [n \in 1..Len(known) |->
          entries[CHOOSE m \in 1..Len(entries) :
                      /\ keys[m] = known[n]
                      /\ \A m2 \in 1..Len(entries) : keys[m2] = known[n] => m2 <= m]]

\* the document as parseExportFile reads it back from the file JSON.stringify wrote
readBack(entries) ==
    [n \in 1..Len(entries) |->
        [type |-> normaliseMetaobjectType(entries[n].type),
         handle |-> entries[n].handle,
         fields |-> [i \in 1..Len(entries[n].fields) |->
                        Field(entries[n].fields[i].key,
                              tryParseJson(stringify(entries[n].fields[i].val)))]]]

(***************************************************************************)
(* Source stores an export is run on                                       *)
(***************************************************************************)
Sources ==
    LET Node(id, type, handle, fields) ==
            [id |-> id, type |-> type, handle |-> handle, fields |-> fields]
        MetaobjectRes(type, handle) == Resource("Metaobject", type, handle, <<>>, <<>>)
        SrcGid(kind, n) == <<GidPrefix, kind, "/", "src", ToString(n)>>
        Plain(key, text) == NodeField(key, Str(text), Undefined, <<>>, <<>>)
        Single(key, gid, res) == NodeField(key, Str(gid), Str(gid), <<res>>, <<>>)
        List(key, gids, ress) ==
            NodeField(key, Str(stringify(Arr([i \in 1..Len(gids) |-> Str(gids[i])]))),
                      Arr([i \in 1..Len(gids) |-> Str(gids[i])]), <<>>, ress)
        AppT == <<"app", "--", "123", "--", "T">>
    IN
    \* a record that refers to a record of a type fetched later, a reference to a product,
    \* and a list of references
    { [types |-> <<<<"t2">>, <<"t1">>>>,
       nodes |-> <<Node(SrcGid("Metaobject", 1), <<"t2">>, <<"h1">>,
                        <<Plain("title", <<"z">>),
                          Single("parent", SrcGid("Metaobject", 2),
                                 MetaobjectRes(<<"t1">>, <<"h1">>))>>),
                   Node(SrcGid("Metaobject", 2), <<"t1">>, <<"h1">>,
                        <<Plain("title", <<"x">>),
                          Single("product", SrcGid("Product", 9),
                                 Resource("Product", <<>>, <<"a">>, <<>>, <<>>))>>),
                   Node(SrcGid("Metaobject", 3), <<"t1">>, <<"h2">>,
                        <<List("all", <<SrcGid("Metaobject", 2), SrcGid("Metaobject", 1)>>,
                               <<MetaobjectRes(<<"t1">>, <<"h1">>),
                                 MetaobjectRes(<<"t2">>, <<"h1">>)>>)>>)>>]
    \* records of an app-owned type
    , [types |-> <<AppT>>,
       nodes |-> <<Node(SrcGid("Metaobject", 1), AppT, <<"h1">>,
                        <<Single("next", SrcGid("Metaobject", 2), MetaobjectRes(AppT, <<"h2">>))>>),
                   Node(SrcGid("Metaobject", 2), AppT, <<"h2">>,
                        <<Plain("title", <<"y">>)>>)>>]
    \* a record that refers to a record fetched after it, which refers to a record of a
    \* type that is not exported
    , [types |-> <<<<"t1">>>>,
       nodes |-> <<Node(SrcGid("Metaobject", 1), <<"t1">>, <<"h2">>,
                        <<Single("prev", SrcGid("Metaobject", 2),
                                 MetaobjectRes(<<"t1">>, <<"h1">>))>>),
                   Node(SrcGid("Metaobject", 2), <<"t1">>, <<"h1">>,
                        <<Single("outside", SrcGid("Metaobject", 3),
                                 MetaobjectRes(<<"t3">>, <<"h9">>))>>),
                   Node(SrcGid("Metaobject", 3), <<"t3">>, <<"h9">>,
                        <<Plain("title", <<"w">>)>>),
                   Node(SrcGid("Metaobject", 4), <<"t1">>, <<"h3">>,
                        <<Plain("title", <<"u">>)>>)>>]
    \* two records that refer to each other
    , [types |-> <<<<"t1">>>>,
       nodes |-> <<Node(SrcGid("Metaobject", 1), <<"t1">>, <<"h1">>,
                        <<Single("peer", SrcGid("Metaobject", 2),
                                 MetaobjectRes(<<"t1">>, <<"h2">>))>>),
                   Node(SrcGid("Metaobject", 2), <<"t1">>, <<"h2">>,
                        <<Single("peer", SrcGid("Metaobject", 1),
                                 MetaobjectRes(<<"t1">>, <<"h1">>))>>)>>]
    \* an app-owned type whose name itself holds a number between double hyphens, next to
    \* a type with double hyphens and no number
    , [types |-> <<AppT \o <<"--", "999", "--", "U">>, <<"a", "--", "b">>>>,
       nodes |-> <<Node(SrcGid("Metaobject", 1), AppT \o <<"--", "999", "--", "U">>, <<"h1">>,
                        <<Plain("title", <<"v">>),
                          Single("variant", SrcGid("ProductVariant", 3),
                                 Resource("ProductVariant", <<>>, <<>>, <<"a">>, <<"s", "/", "1">>)),
                          Single("noSku", SrcGid("ProductVariant", 4),
                                 Resource("ProductVariant", <<>>, <<>>, <<"a">>, <<>>)),
                          Single("page", SrcGid("Page", 5),
                                 Resource("Page", <<>>, <<"p">>, <<>>, <<>>))>>),
                   Node(SrcGid("Metaobject", 2), <<"a", "--", "b">>, <<"h2">>,
                        <<Single("collection", SrcGid("Collection", 6),
                                 Resource("Collection", <<>>, <<"c">>, <<>>, <<>>)),
                          Single("noHandle", SrcGid("Product", 7),
                                 Resource("Product", <<>>, <<>>, <<>>, <<>>)),
                          Single("first", SrcGid("Metaobject", 1),
                                 MetaobjectRes(AppT \o <<"--", "999", "--", "U">>, <<"h1">>)),
                          List("variants", <<SrcGid("ProductVariant", 8),
                                             SrcGid("ProductVariant", 4),
                                             SrcGid("ProductVariant", 9)>>,
                               <<Resource("ProductVariant", <<>>, <<>>, <<"a">>, <<"s1">>),
                                 Resource("ProductVariant", <<>>, <<>>, <<"a">>, <<>>),
                                 Resource("ProductVariant", <<>>, <<>>, <<"a">>, <<"s2">>)>>)>>)>>]
    }

\* metaobjects(type: $type): the nodes of the type
nodesOfType(nodes, type) ==
    SelectSeq(nodes, LAMBDA n : normaliseMetaobjectType(n.type) = normaliseMetaobjectType(type))

\* one iteration of the loop over opts.types of runExport; after the last type the entries
\* are sorted and written, and the file is selected for import
fetchType(outcome) ==
    /\ pc = "export"
    /\ Len(exp.types) > 0
    /\ faults + fault(outcome) <= MaxFaults
    /\ faults' = faults + fault(outcome)
    /\ LET nodes == IF outcome = "ok" THEN nodesOfType(src.nodes, Head(exp.types)) ELSE <<>>
           entries == exp.entries \o [n \in 1..Len(nodes) |-> exportEntry(nodes[n], exp.retainIds)]
           deps == exp.deps \o SelectSeq([n \in 1..Len(nodes) |-> nodeDeps(nodes[n], exp.retainIds)],
                                         LAMBDA d : Len(d.deps) > 0)
           last == Len(exp.types) = 1
           ordered == topoSortEntries(entries, deps)
       IN IF outcome = "throw"
          THEN /\ pc' = "exportFailed"
               /\ UNCHANGED <<exp, doc>>
          ELSE /\ exp' = [exp EXCEPT !.types = Tail(@), !.entries = entries, !.deps = deps,
                                     !.file = IF last
                                              THEN [written |-> TRUE, count |-> Len(ordered),
                                                    entries |-> ordered]
                                              ELSE @]
               /\ doc' = IF last THEN readBack(ordered) ELSE doc
               /\ pc' = IF last THEN "idle" ELSE "export"
    /\ UNCHANGED <<mode, skipOnError, oneIndex, store, dstFields, metafields, nextId, cache, bulk,
                   attempts, returned, log, idx, createdIds, status, phaseB, ui, closure,
                   summary, src, calls, changes, req>>

(***************************************************************************)
(* Export, then import of the exported document into an empty store        *)
(***************************************************************************)
InitRoundTrip ==
    /\ pc = "export"
    /\ mode = "roundtrip"
    /\ src \in Sources
    /\ exp \in {[NoExp EXCEPT !.types = src.types, !.retainIds = r] : r \in BOOLEAN}
    /\ doc = <<>>
    /\ skipOnError \in BOOLEAN
    /\ oneIndex = 1
    /\ store = {}
    /\ dstFields = EmptyMap
    /\ metafields = {}
    /\ nextId = 1
    /\ cache = EmptyMap
    /\ bulk = NoBulk
    /\ attempts = EmptyMap
    /\ returned = {}
    /\ log = <<>>
    /\ idx = 0
    /\ createdIds = EmptyMap
    /\ status = EmptyMap
    /\ phaseB = NoPhaseB
    /\ faults = 0
    /\ ui = NoUi
    /\ closure = NoUi
    /\ summary = NoSummary
    /\ calls = 0
    /\ changes = 0
    /\ req = <<>>

NextRoundTrip ==
    \/ \E outcome \in {"ok", "nodata", "throw"} : fetchType(outcome)
    \/ confirmImport
    \/ \E outcome \in Outcomes : resolveGroupRequest(outcome)
    \/ \E outcome \in UpsertOutcomes, fb \in Outcomes : upsertEntry(outcome, fb)
    \/ applyBackReferences
    \/ importResolved
    \/ importRejected

SpecRoundTrip == InitRoundTrip /\ [][NextRoundTrip]_vars

(***************************************************************************)
(* client.ts: ShopifyGraphQLClient.request, and metaobjects.ts: the back    *)
(* references of a metaobject, collected page by page through the client   *)
(***************************************************************************)
\* the referencedBy connection of a metaobject: pages of edges [namespace, key, referencer];
\* a referencer of typename "none" is an edge without referencer
ReferencedBy ==
    LET Edge(key, typename, handle, productHandle, sku) ==
            [namespace |-> <<"custom">>, key |-> <<key>>,
             referencer |-> [id |-> <<GidPrefix, typename, "/", key>>]
                            @@ Resource(typename, <<"t1">>, handle, productHandle, sku)]
    IN { << <<Edge("k1", "Product", <<"a">>, <<>>, <<>>),
              Edge("k2", "Metaobject", <<"h1">>, <<>>, <<>>),
              Edge("k3", "none", <<>>, <<>>, <<>>)>>,
            <<Edge("k4", "ProductVariant", <<>>, <<"a">>, <<>>),
              Edge("k5", "Page", <<"p">>, <<>>, <<>>),
              Edge("k6", "ProductVariant", <<>>, <<"a">>, <<"s1">>)>> >>,
         << <<Edge("k1", "Collection", <<"c">>, <<>>, <<>>),
              Edge("k2", "Article", <<"x">>, <<>>, <<>>),
              Edge("k3", "Metaobject", <<"h2">>, <<>>, <<>>),
              Edge("k4", "Product", <<>>, <<>>, <<>>)>> >>,
         << <<Edge("k1", "Metaobject", <<"h1">>, <<>>, <<>>)>>,
            <<>>,
            <<Edge("k2", "Page", <<"q">>, <<>>, <<>>)>> >> }

requestRetriesOnceMore(o) ==
    /\ mode \in {"fetch", "pages"}
    /\ pc = "awaiting"
    /\ req.state = "pending"
    /\ LET throttled == o.parsable /\ \E i \in 1..Len(o.errors) : o.errors[i] = "THROTTLED"
           retryable == ~o.net /\ (o.status = 429 \/ o.status >= 500 \/ throttled)
           retry == retryable /\ req.attempt <= req.maxRetries
           raised == ~retry /\ (o.net \/ retryable \/ ~o.parsable)
       IN req' = [req EXCEPT !.posts = @ + 1,
                             !.last = o,
                             !.attempt = IF retry THEN @ + 1 ELSE @,
                             !.state = IF retry THEN "pending"
                                       ELSE IF raised THEN "raised" ELSE "returned",
                             !.json = IF retry \/ raised THEN <<>>
                                      ELSE [data |-> o.data, errors |-> o.errors]]
    /\ UNCHANGED <<pc, mode, store, nextId, cache, bulk, attempts, returned, log, faults,
                   calls, changes, src, exp>>
    /\ UNCHANGED importVars

requestDropsErrors(o) ==
    /\ mode \in {"fetch", "pages"}
    /\ pc = "awaiting"
    /\ req.state = "pending"
    /\ LET throttled == o.parsable /\ \E i \in 1..Len(o.errors) : o.errors[i] = "THROTTLED"
           retryable == ~o.net /\ (o.status = 429 \/ o.status >= 500 \/ throttled)
           retry == retryable /\ req.attempt < req.maxRetries
           raised == ~retry /\ (o.net \/ retryable \/ ~o.parsable)
       IN req' = [req EXCEPT !.posts = @ + 1,
                             !.last = o,
                             !.attempt = IF retry THEN @ + 1 ELSE @,
                             !.state = IF retry THEN "pending"
                                       ELSE IF raised THEN "raised" ELSE "returned",
                             !.json = IF retry \/ raised THEN <<>>
                                      ELSE [data |-> o.data, errors |-> <<>>]]
    /\ UNCHANGED <<pc, mode, store, nextId, cache, bulk, attempts, returned, log, faults,
                   calls, changes, src, exp>>
    /\ UNCHANGED importVars

\* one pass of the while loop of ShopifyGraphQLClient.request: the attempt is answered by
\* o = [net, status, parsable, data, errors], where net says that post() rejected.  The
\* request retries, raises, or returns the parsed body
request(o) ==
    /\ mode \in {"fetch", "pages"}
    /\ pc = "awaiting"
    /\ req.state = "pending"
    /\ LET throttled == o.parsable /\ \E i \in 1..Len(o.errors) : o.errors[i] = "THROTTLED"
           retryable == ~o.net /\ (o.status = 429 \/ o.status >= 500 \/ throttled)
           retry == retryable /\ req.attempt < req.maxRetries
           raised == ~retry /\ (o.net \/ retryable \/ ~o.parsable)
       IN req' = [req EXCEPT !.posts = @ + 1,
                             !.last = o,
                             !.attempt = IF retry THEN @ + 1 ELSE @,
                             !.state = IF retry THEN "pending"
                                       ELSE IF raised THEN "raised" ELSE "returned",
                             !.json = IF retry \/ raised THEN <<>>
                                      ELSE [data |-> o.data, errors |-> o.errors]]
    /\ UNCHANGED <<pc, mode, store, nextId, cache, bulk, attempts, returned, log, faults,
                   calls, changes, src, exp>>
    /\ UNCHANGED importVars

extractInitialUnfiltered ==
    /\ mode = "fetch"
    /\ pc = "node"
    /\ LET edges == SelectSeq(req.pages[1], LAMBDA e : e.referencer.typename # "none")
           owner(r) == IF toHandleRef(r) # <<>> THEN toHandleRef(r) ELSE r.id
       IN req' = [req EXCEPT !.initial =
                     [i \in 1..Len(edges) |->
                         BackRef(edges[i].referencer.typename, owner(edges[i].referencer),
                                 edges[i].namespace, edges[i].key)]]
    /\ pc' = "extracted"
    /\ UNCHANGED <<mode, store, nextId, cache, bulk, attempts, returned, log, faults,
                   calls, changes, src, exp>>
    /\ UNCHANGED importVars

\* extractInitialBackReferencesFromNode(node), the node carrying the first page of edges
extractInitialBackReferencesFromNode ==
    /\ mode = "fetch"
    /\ pc = "node"
    /\ LET edges == SelectSeq(req.pages[1], LAMBDA e :
                        /\ e.referencer.typename # "none"
                        /\ e.referencer.typename \in
                              {"Product", "ProductVariant", "Collection", "Page"})
           owner(r) == IF toHandleRef(r) # <<>> THEN toHandleRef(r) ELSE r.id
       IN req' = [req EXCEPT !.initial =
                     [i \in 1..Len(edges) |->
                         BackRef(edges[i].referencer.typename, owner(edges[i].referencer),
                                 edges[i].namespace, edges[i].key)]]
    /\ pc' = "extracted"
    /\ UNCHANGED <<mode, store, nextId, cache, bulk, attempts, returned, log, faults,
                   calls, changes, src, exp>>
    /\ UNCHANGED importVars

\* fetchBackReferences(client, id) (after = 0) and fetchBackReferencesFrom(client, id,
\* afterCursor) (after = 1, the end of the first page): the call, and one pass of the
\* while loop once the awaited request has returned or raised
fetchBackReferences(after) ==
    /\ mode = "fetch"
    /\ \/ /\ pc = "extracted"
          /\ after < Len(req.pages)
          /\ req' = [req EXCEPT !.state = "pending", !.attempt = 0, !.posts = 0,
                                !.cursor = after, !.results = <<>>]
          /\ pc' = "awaiting"
       \/ /\ pc = "awaiting"
          /\ after = 0
          /\ req.state = "returned"
          /\ LET page == req.pages[req.cursor + 1]
                 edges == SelectSeq(page, LAMBDA e :
                              /\ e.referencer.typename # "none"
                              /\ e.referencer.typename \in
                                    {"Product", "ProductVariant", "Collection", "Page"})
                 owner(r) == IF toHandleRef(r) # <<>> THEN toHandleRef(r) ELSE r.id
                 found == [i \in 1..Len(edges) |->
                              BackRef(edges[i].referencer.typename, owner(edges[i].referencer),
                                      edges[i].namespace, edges[i].key)]
                 hasNextPage == req.cursor + 1 < Len(req.pages)
             IN IF ~req.json.data
                THEN /\ pc' = "done"
                     /\ req' = [req EXCEPT !.state = "idle"]
                ELSE IF hasNextPage
                THEN /\ pc' = "awaiting"
                     /\ req' = [req EXCEPT !.results = @ \o found, !.cursor = @ + 1,
                                           !.state = "pending", !.attempt = 0, !.posts = 0]
                ELSE /\ pc' = "done"
                     /\ req' = [req EXCEPT !.results = @ \o found, !.state = "idle"]
       \/ /\ pc = "awaiting"
          /\ after = 0
          /\ req.state = "raised"
          /\ pc' = "raised"
          /\ req' = req
    /\ UNCHANGED <<mode, store, nextId, cache, bulk, attempts, returned, log, faults,
                   calls, changes, src, exp>>
    /\ UNCHANGED importVars

fetchAllMetaobjectsFirstPage ==
    /\ mode = "pages"
    /\ \/ /\ pc = "types"
          /\ req' = [req EXCEPT !.state = "pending", !.attempt = 0, !.posts = 0,
                                !.cursor = 0, !.results = <<>>, !.sent = <<0>>]
          /\ pc' = "awaiting"
       \/ /\ pc = "awaiting"
          /\ req.state = "returned"
          /\ LET page == req.pages[req.cursor + 1]
             IN /\ pc' = "done"
                /\ req' = IF ~req.json.data THEN [req EXCEPT !.state = "idle"]
                           ELSE [req EXCEPT !.results = @ \o page.nodes, !.state = "idle"]
       \/ /\ pc = "awaiting"
          /\ req.state = "raised"
          /\ pc' = "raised"
          /\ req' = req
    /\ UNCHANGED <<mode, store, nextId, cache, bulk, attempts, returned, log, faults,
                   calls, changes, src, exp>>
    /\ UNCHANGED importVars

\* fetchAllMetaobjects(client, type): the call, and one pass of the while loop once the
\* awaited request has returned or raised.  The server answers a request with cursor c by
\* the page after c; req.sent lists the cursors of the requests made (0 for none)
fetchAllMetaobjects ==
    /\ mode = "pages"
    /\ \/ /\ pc = "types"
          /\ req' = [req EXCEPT !.state = "pending", !.attempt = 0, !.posts = 0,
                                !.cursor = 0, !.results = <<>>, !.sent = <<0>>]
          /\ pc' = "awaiting"
       \/ /\ pc = "awaiting"
          /\ req.state = "returned"
          /\ LET page == req.pages[req.cursor + 1]
             IN IF ~req.json.data
                THEN /\ pc' = "done"
                     /\ req' = [req EXCEPT !.state = "idle"]
                ELSE IF ~page.hasNextPage
                THEN /\ pc' = "done"
                     /\ req' = [req EXCEPT !.results = @ \o page.nodes, !.state = "idle"]
                ELSE /\ pc' = "awaiting"
                     /\ req' = [req EXCEPT !.results = @ \o page.nodes,
                                           !.cursor = page.endCursor,
                                           !.sent = Append(@, page.endCursor),
                                           !.state = "pending", !.attempt = 0, !.posts = 0]
       \/ /\ pc = "awaiting"
          /\ req.state = "raised"
          /\ pc' = "raised"
          /\ req' = req
    /\ UNCHANGED <<mode, store, nextId, cache, bulk, attempts, returned, log, faults,
                   calls, changes, src, exp>>
    /\ UNCHANGED importVars

InitFetch ==
    /\ mode \in {"fetch", "pages"}
    /\ pc = IF mode = "fetch" THEN "node" ELSE "types"
    /\ doc = <<>>
    /\ skipOnError = FALSE
    /\ oneIndex = 1
    /\ store = {}
    /\ dstFields = EmptyMap
    /\ metafields = {}
    /\ nextId = 4
    /\ cache = EmptyMap
    /\ bulk = NoBulk
    /\ attempts = EmptyMap
    /\ returned = {}
    /\ log = <<>>
    /\ idx = 0
    /\ createdIds = EmptyMap
    /\ status = EmptyMap
    /\ phaseB = NoPhaseB
    /\ faults = 0
    /\ ui = NoUi
    /\ closure = NoUi
    /\ summary = NoSummary
    /\ src = <<>>
    /\ exp = NoExp
    /\ calls = 0
    /\ changes = 0
    /\ LET Page(handles, hasNextPage, endCursor) ==
               [nodes |-> [n \in 1..Len(handles) |->
                              [type |-> <<"t1">>, handle |-> <<handles[n]>>, fields |-> <<>>]],
                hasNextPage |-> hasNextPage, endCursor |-> endCursor]
           \* the pages of the metaobjects connection of a type: no record at all, one page,
           \* three pages, and two pages before a page the last cursor does not lead to
           Metaobjects ==
               { <<Page(<<>>, FALSE, 0)>>,
                 <<Page(<<"h1", "h2">>, FALSE, 1)>>,
                 <<Page(<<"h1", "h2">>, TRUE, 1), Page(<<"h3">>, TRUE, 2),
                   Page(<<"h4", "h5">>, FALSE, 3)>>,
                 <<Page(<<"h2">>, TRUE, 1), Page(<<"h1">>, FALSE, 2), Page(<<"h3">>, FALSE, 3)>> }
       IN req \in {[maxRetries |-> m, attempt |-> 0, posts |-> 0, state |-> "idle",
                    last |-> <<>>, json |-> <<>>, pages |-> ps, cursor |-> 0,
                    initial |-> <<>>, results |-> <<>>, sent |-> <<>>] :
                      m \in 0..MaxRetries,
                      ps \in IF mode = "fetch" THEN ReferencedBy ELSE Metaobjects}

NextFetch ==
    \/ extractInitialBackReferencesFromNode
    \/ \E after \in {0, 1} : fetchBackReferences(after)
    \/ fetchAllMetaobjects
    \/ \E o \in {[net |-> TRUE, status |-> 0, parsable |-> FALSE, data |-> FALSE,
                  errors |-> <<>>]}
                \cup {[net |-> FALSE, status |-> st, parsable |-> FALSE, data |-> FALSE,
                       errors |-> <<>>] : st \in {200, 429, 500}}
                \cup {[net |-> FALSE, status |-> st, parsable |-> TRUE, data |-> d,
                       errors |-> e] :
                         st \in {200, 401, 429, 500, 503}, d \in BOOLEAN,
                         e \in {<<>>, <<"ACCESS_DENIED">>, <<"THROTTLED">>,
                                <<"ACCESS_DENIED", "THROTTLED">>}} : request(o)

SpecFetch == InitFetch /\ [][NextFetch]_vars

(***************************************************************************)
(* Properties                                                              *)
(***************************************************************************)

\* C1: after an export in portable mode and an import of the exported document into an
\* empty store with no remote failure, every field of an entry whose referenced
\* Metaobjects are all entries of the document, and which refers to a Metaobject, is
\* stored in the destination with the destination identifiers of the referenced entries.
C1_RoundTripKeepsReferences ==
    (mode = "roundtrip" /\ pc = "finished" /\ ~exp.retainIds /\ faults = 0) =>
        \A n \in 1..Len(doc) :
            LET e == doc[n]
                metaRefs(val) == {r \in range(collectHandleRefsFromValue(val)) : isMetaobjectRef(r)}
                inDoc(r) == \E m \in 1..Len(doc) : keyFor(doc[m]) = r
                ideal == [r \in range(fieldRefs(e)) |->
                             IF isMetaobjectRef(r) /\ hasKey(createdIds, SubSeq(r, 4, Len(r)))
                             THEN createdIds[SubSeq(r, 4, Len(r))]
                             ELSE storeAnswer(r, store, nextId)]
            IN (\A i \in 1..Len(e.fields) : \A r \in metaRefs(e.fields[i].val) : inDoc(r)) =>
                   \A i \in 1..Len(e.fields) :
                       metaRefs(e.fields[i].val) # {} =>
                           /\ hasKey(createdIds, entryKey(e))
                           /\ hasKey(dstFields, createdIds[entryKey(e)])
                           /\ \E j \in 1..Len(dstFields[createdIds[entryKey(e)]]) :
                                 /\ dstFields[createdIds[entryKey(e)]][j].key = e.fields[i].key
                                 /\ dstFields[createdIds[entryKey(e)]][j].value
                                        = serialiseField(transformValue(e.fields[i].val, ideal))

\* C2: in runImport a metafieldsSet request is only issued once the Phase 1 loop has
\* handled every entry of the document, and no upsert request follows a metafieldsSet request.
C2_WritesAfterAllUpserts ==
    mode = "full" =>
        /\ (\E k \in 1..Len(log) : log[k].op = "metafieldsSet") => idx = Len(doc)
        /\ \A j, k \in 1..Len(log) :
              (log[j].op = "metafieldsSet" /\ log[k].op = "upsert") => k < j

C2_Witness ==
    /\ mode = "full"
    /\ skipOnError
    /\ \E k \in 1..Len(log) : log[k].op = "metafieldsSet"
    /\ \E i \in DOMAIN status : status[i] = "failed" /\ ~hasKey(createdIds, entryKey(doc[i + 1]))
    /\ \E i \in DOMAIN status : hasKey(createdIds, entryKey(doc[i + 1]))

\* C3: no field value of an upsert request of runImport or runImportOne contains the token
\* 'handle://shopify/'; a field of the entry that is just a reference which resolved to
\* null is not in the request's field list; and resolving the entry's references cannot raise.
C3_NoSymbolicReferenceSent ==
    \A k \in 1..Len(log) :
        log[k].op = "upsert" =>
            /\ \A j \in 1..Len(log[k].fields) :
                  \A t \in 1..Len(log[k].fields[j].value) : log[k].fields[j].value[t] # HandlePrefix
            /\ \A n \in 1..Len(doc) :
                  entryKey(doc[n]) = log[k].key =>
                      /\ ~transformThrows(fieldRefs(doc[n]), cache, store, nextId, "throw")
                      /\ \A i \in 1..Len(doc[n].fields) :
                            LET f == doc[n].fields[i]
                                unresolved == IF hasKey(cache, f.val.v) THEN cache[f.val.v] = NullId
                                              ELSE ~singleIsRemote(f.val.v)
                            IN (isHandleString(f.val) /\ unresolved) =>
                                   ~\E j \in 1..Len(log[k].fields) : log[k].fields[j].key = f.key

C3_Witness ==
    \E k \in 1..Len(log) :
        /\ log[k].op = "upsert"
        /\ \E j \in 1..Len(log[k].fields) :
              \E t \in 1..Len(log[k].fields[j].value) : log[k].fields[j].value[t] = GidPrefix
        /\ \E n \in 1..Len(doc) :
              /\ entryKey(doc[n]) = log[k].key
              /\ \E i \in 1..Len(doc[n].fields) :
                    /\ isHandleString(doc[n].fields[i].val)
                    /\ hasKey(cache, doc[n].fields[i].val.v)
                    /\ cache[doc[n].fields[i].val.v] = NullId
                    /\ attempts[doc[n].fields[i].val.v] = 1
                    /\ ~\E j \in 1..Len(log[k].fields) : log[k].fields[j].key = doc[n].fields[i].key

\* C4: once resolve or resolveBulk of a resolver instance has returned a result for a
\* reference, no later step issues a remote request for that reference.
C4_NoRemoteCallAfterResult ==
    [][\A r \in returned :
          (IF hasKey(attempts', r) THEN attempts'[r] ELSE 0)
              = (IF hasKey(attempts, r) THEN attempts[r] ELSE 0)]_vars

\* C5: during a run of runImport or runImportOne every reference is the subject of at most
\* one remote resolution request, over pre-resolution, field transforms and owner resolution.
C5_AtMostOneAttempt ==
    mode \in {"full", "one"} => \A r \in DOMAIN attempts : attempts[r] <= 1

C5_Witness ==
    /\ mode = "full"
    /\ pc = "finished"
    /\ Len(doc) = 3
    /\ hasKey(attempts, RefProductA) /\ attempts[RefProductA] = 1
    /\ hasKey(attempts, RefMetaT1H1) /\ attempts[RefMetaT1H1] = 1
    /\ Cardinality({k \in 1..Len(log) : log[k].op = "upsert"}) = Len(doc)
    /\ \E k \in 1..Len(log) : log[k].op = "metafieldsSet"

\* C6: an entry of the resolver's cache, an identifier or null, is never changed or removed
\* by any step, whatever happens to the destination store.
C6_CacheEntryNeverChanges ==
    [][\A r \in DOMAIN cache : hasKey(cache', r) /\ cache'[r] = cache[r]]_vars

C6_Witness ==
    /\ mode = "resolver"
    /\ pc = "ridle"
    /\ changes > 0
    /\ calls >= 2
    /\ hasKey(cache, RefProductA) /\ cache[RefProductA] # NullId
    /\ lookup(store, "Product", <<"a">>, <<>>) = NullId
    /\ hasKey(cache, RefProductB) /\ cache[RefProductB] = NullId

\* C7: with skipOnError, when upserts report validation errors (and nothing else fails),
\* runImport handles every entry and returns, the failing entries are marked failed and no
\* other entry is unless Phase 2 marked it, and the summary written at completion gives each
\* failing entry status failed with its error text and each completed entry status success.
C7_SkipOnErrorSummary ==
    LET failing == {i \in 0..(Len(doc) - 1) :
                       /\ hasKey(ui.results, i)
                       /\ ui.results[i].error = upsertError(doc[i + 1])}
    IN (mode = "full" /\ skipOnError /\ pc = "finished" /\ failing # {}
        /\ faults = Cardinality(failing)) =>
           /\ idx = Len(doc)
           /\ summary.written
           /\ \A i \in failing : hasKey(status, i) /\ status[i] = "failed"
           /\ \A i \in DOMAIN status \ failing :
                 status[i] = "failed" => Len(backRefsOf(doc[i + 1])) > 0
           /\ \A i \in failing :
                 /\ summary.results[i + 1].status = "failed"
                 /\ summary.results[i + 1].error = upsertError(doc[i + 1])
           /\ \A i \in DOMAIN status \ failing :
                 status[i] = "backreferences-completed" => summary.results[i + 1].status = "success"

\* C8: without skipOnError, as soon as the transform or the upsert of an entry has failed
\* in Phase 1 (it raised, or the upsert reported user errors), runImport has raised: the
\* failing entry is marked failed, no request was made for a later entry and no
\* metafieldsSet request was issued.
C8_FirstFailureRaises ==
    (mode = "full" /\ ~skipOnError) =>
        \A i \in DOMAIN status :
            (status[i] = "failed" /\ idx < Len(doc)) =>
                /\ pc \in {"raised", "aborted"}
                /\ i = idx
                /\ ~\E k \in 1..Len(log) : log[k].op = "metafieldsSet"
                /\ \A k \in 1..Len(log) :
                      log[k].op = "upsert" =>
                          \E n \in 1..(i + 1) : entryKey(doc[n]) = log[k].key
                /\ Cardinality({k \in 1..Len(log) : log[k].op = "upsert"}) <= i + 1

C8_Witness ==
    /\ mode = "full"
    /\ ~skipOnError
    /\ pc = "aborted"
    /\ Len(doc) = 3
    /\ idx = 1
    /\ hasKey(status, 1) /\ status[1] = "failed"
    /\ hasKey(status, 0) /\ status[0] = "backreferences-pending"

\* C9: when the batch of back-reference writes is over, by returning or by raising, a
\* metafieldsSet request has been issued for every chunk.
C9_EveryChunkAttempted ==
    (mode = "full" /\ pc \in {"returned", "raised", "finished", "aborted"} /\ Len(phaseB.chunks) > 0) =>
        phaseB.sent = Len(phaseB.chunks)

\* C10: with skipOnError, once runImport has started the back-reference writes it does not
\* raise, and when it has returned after a rejected write the affected entries are failed.
C10_SkipOnErrorPhaseB ==
    (mode = "full" /\ skipOnError /\ phaseB.sent > 0) =>
        /\ pc \notin {"raised", "aborted"}
        /\ (pc \in {"returned", "finished"} /\ Len(phaseB.allErrors) > 0) =>
               \A i \in allIndices(phaseB.items) : hasKey(status, i) /\ status[i] = "failed"


\* C11: in runImport every back-reference write carries the distinct targets of its
\* group (owner identifier, namespace, key): one distinct target is written as a single
\* metaobject_reference, two or more as a list.metaobject_reference without duplicates
C11_WriteShapeMatchesTargets ==
    mode = "full" =>
        \A k \in 1..Len(log) : log[k].op = "metafieldsSet" =>
            \A n \in 1..Len(log[k].fields) :
                LET x == log[k].fields[n]
                    declares(e) ==
                        \E j \in 1..Len(backRefsOf(e)) :
                            /\ ownerIdOf(backRefsOf(e)[j].owner, bulk.results) = x.ownerId
                            /\ normaliseAppNamespace(backRefsOf(e)[j].namespace) = x.namespace
                            /\ backRefsOf(e)[j].key = x.key
                    targets == {createdIds[entryKey(doc[i])] :
                                  i \in {i \in 1..Len(doc) : /\ hasKey(createdIds, entryKey(doc[i]))
                                                             /\ declares(doc[i])}}
                    parsed == tryParseJson(x.value)
                IN IF Cardinality(targets) = 1
                   THEN x.type = "metaobject_reference" /\ {x.value} = targets
                   ELSE /\ Cardinality(targets) >= 2
                        /\ x.type = "list.metaobject_reference"
                        /\ parsed.k = "arr"
                        /\ Len(parsed.v) = Cardinality(targets)
                        /\ {parsed.v[m].v : m \in 1..Len(parsed.v)} = targets

C11_Witness ==
    /\ mode = "full"
    /\ pc = "finished"
    /\ Len(doc) = 3
    /\ Cardinality(DOMAIN createdIds) = 2
    /\ \E k \in 1..Len(log) :
          /\ log[k].op = "metafieldsSet"
          /\ \E n1, n2, n3 \in 1..Len(log[k].fields) :
                /\ log[k].fields[n1].key = <<"k1">>
                /\ log[k].fields[n1].type = "metaobject_reference"
                /\ log[k].fields[n2].key = <<"k2">>
                /\ log[k].fields[n2].type = "list.metaobject_reference"
                /\ log[k].fields[n3].key = <<"k3">>
                /\ log[k].fields[n3].type = "metaobject_reference"

\* C12: in runImport and in runImportOne, once the back references have been grouped, no
\* write is issued for a back reference whose owner did not resolve and the entry that
\* declared it has the status failed
C12_UnresolvedOwnerFailsEntry ==
    LET unresolved(e) ==
            \E j \in 1..Len(backRefsOf(e)) :
                ownerIdOf(backRefsOf(e)[j].owner, bulk.results) \in {NullId, <<>>}
        grouped == pc \in {"chunks", "returned", "finished"}
    IN /\ \A k \in 1..Len(log) : log[k].op = "metafieldsSet" =>
              \A n \in 1..Len(log[k].fields) : log[k].fields[n].ownerId \notin {NullId, <<>>}
       /\ (mode = "full" /\ grouped) =>
              \A i \in 1..Len(doc) :
                  unresolved(doc[i]) => hasKey(status, i - 1) /\ status[i - 1] = "failed"
       /\ (mode = "one" /\ grouped /\ oneIndex <= Len(doc)
             /\ hasKey(createdIds, entryKey(doc[oneIndex]))) =>
              (unresolved(doc[oneIndex])
                 => hasKey(status, oneIndex - 1) /\ status[oneIndex - 1] = "failed")

\* C13: when runImport starts Phase B and when it returns, every entry of the Phase 1
\* loop has a status: failed, or backreferences-pending or backreferences-completed
\* together with a created identifier
C13_AttemptedEntryHasOutcome ==
    (mode = "full" /\ pc \in {"phaseB", "returned"}) =>
        \A i \in 0..(idx - 1) :
            /\ hasKey(status, i)
            /\ \/ status[i] = "failed"
               \/ /\ status[i] \in {"backreferences-pending", "backreferences-completed"}
                  /\ hasKey(createdIds, entryKey(doc[i + 1]))

\* C14: the completion status of an entry, in the importer's map and in the copy the
\* progress observer holds, only moves forward along pending, metaobject-created,
\* backreferences-pending, backreferences-completed, failed; failed is never left
C14_StatusMovesForward ==
    [][LET rank(v) == CASE v = "pending" -> 0
                        [] v = "metaobject-created" -> 1
                        [] v = "backreferences-pending" -> 2
                        [] v = "backreferences-completed" -> 3
                        [] v = "failed" -> 4
           forward(old, new) ==
               \A i \in DOMAIN old : /\ i \in DOMAIN new
                                     /\ rank(new[i]) >= rank(old[i])
                                     /\ (old[i] = "failed" => new[i] = "failed")
       IN forward(status, status') /\ forward(ui.status, ui'.status)]_vars

C14_Witness ==
    /\ mode = "full"
    /\ pc = "finished"
    /\ \E i, j \in allIndices(phaseB.items) :
          /\ hasKey(status, i) /\ status[i] = "failed"
          /\ hasKey(ui.status, i) /\ ui.status[i] = "failed"
          /\ hasKey(status, j) /\ status[j] = "backreferences-completed"
    /\ phaseB.sent = Len(phaseB.chunks)
    /\ phaseB.allErrors = <<>>

\* C15: a request of resolveBulk that fails leaves the references of its group null and
\* resolveBulk carries on; a request that succeeds gives its group the store's answers;
\* in both cases the results of the other groups are left as they were
C15_GroupFailureIsLocal ==
    [][(Len(bulk.queue) > 0 /\ Len(bulk'.queue) = Len(bulk.queue) - 1) =>
          LET q == Head(bulk.queue)
          IN /\ pc' \in {"bulk", "ridle"}
             /\ \A r \in DOMAIN bulk.results :
                   r \in DOMAIN bulk'.results /\ bulk'.results[r] = bulk.results[r]
             /\ \A r \in range(q.refs) :
                   /\ r \in DOMAIN bulk'.results
                   /\ bulk'.results[r] = IF faults' > faults THEN NullId
                                         ELSE storeAnswer(r, store, nextId)
             /\ (pc' = "ridle" =>
                   \A r \in DOMAIN bulk'.results :
                       r \in DOMAIN cache' /\ cache'[r] = bulk'.results[r])]_vars

C15_Witness ==
    /\ mode = "resolver"
    /\ pc = "ridle"
    /\ bulk.ret = "client"
    /\ changes = 0
    /\ faults = 1
    /\ hasKey(bulk.results, RefProductA) /\ bulk.results[RefProductA] = NullId
    /\ hasKey(bulk.results, RefMetaT1H1) /\ bulk.results[RefMetaT1H1] = Gid("Metaobject", 3)
    /\ hasKey(bulk.results, RefVariantAS1)
    /\ bulk.results[RefVariantAS1] = Gid("ProductVariant", 2)

\* C16: a call of BulkHandleResolver.resolve that issues a remote request returns a
\* result to its caller whatever the request's outcome, and a request of resolveBulk
\* never makes resolveBulk raise
C16_ResolveNeverRaises ==
    [][/\ (calls' = calls + 1 /\ Len(log') = Len(log) + 1) =>
              log'[Len(log')].key \in returned'
       /\ (Len(bulk.queue) > 0 /\ Len(bulk'.queue) = Len(bulk.queue) - 1) =>
              pc' \in {"bulk", "ridle"}]_vars

\* C17: in a document written by runExport in portable mode whose Metaobject references
\* among its entries form no cycle, an entry that is referenced by another entry's fields
\* comes before that entry
C17_ReferencedEntryComesFirst ==
    LET es == exp.file.entries
        n == Len(es)
        dep(a, b) == keyFor(es[b]) \in range(fieldRefs(es[a]))
        cyclic == \E k \in 1..n : \E f \in [1..k -> 1..n] :
                      /\ \A i \in 1..(k - 1) : dep(f[i], f[i + 1])
                      /\ dep(f[k], f[1])
    IN (exp.file.written /\ ~exp.retainIds /\ ~cyclic) =>
           \A a, b \in 1..n : dep(a, b) => b < a

C19_NoFileAfterFailedFetch ==
    /\ pc = "exportFailed" => ~exp.file.written
    /\ exp.file.written =>
          Len(exp.file.entries) =
              Cardinality({n \in 1..Len(src.nodes) :
                              \E t \in 1..Len(src.types) :
                                  normaliseMetaobjectType(src.nodes[n].type)
                                      = normaliseMetaobjectType(src.types[t])})

\* C20: the destination never holds two metaobject records of one (type, handle), a
\* record keeps its identifier, and a run of runImport that follows an earlier run of
\* the same document, with no remote failure in either, creates no record and maps every
\* entry of the document to the identifier its record already had
C20_SecondRunKeepsMapping ==
    [][LET M(st) == {e \in st : e.kind = "Metaobject"}
       IN /\ \A e1, e2 \in M(store') :
                (e1.k1 = e2.k1 /\ e1.k2 = e2.k2) => e1.id = e2.id
          /\ M(store) \subseteq M(store')
          /\ (mode = "full" /\ calls >= 1 /\ faults' = 0 /\ changes' = 0) =>
                /\ M(store') = M(store)
                /\ \A key \in DOMAIN createdIds' :
                      \E e \in M(store) :
                          /\ normaliseMetaobjectType(e.k1) \o <<Slash>> \o e.k2 = key
                          /\ e.id = createdIds'[key]
                /\ pc' = "finished" =>
                      \A i \in 1..Len(doc) : hasKey(createdIds', entryKey(doc[i]))]_vars

C20_Witness ==
    /\ mode = "full"
    /\ calls = 1
    /\ faults = 0
    /\ pc = "finished"
    /\ Len(doc) = 3
    /\ Cardinality({e \in store : e.kind = "Metaobject"}) = 3
    /\ Cardinality(DOMAIN createdIds) = 3
    /\ \E k \in 1..Len(log) : log[k].op = "metafieldsSet"

\* C21: the type written for an exported record is the record's type when that type has
\* no 'prefix--digits--suffix' form and '$prefix:suffix' (shortest prefix) when it has,
\* and normaliseMetaobjectType applied again by parseExportFile leaves the written type
\* as it is
C21_NormaliseIdempotent ==
    exp.file.written =>
        /\ \A n \in 1..Len(doc) : doc[n].type = exp.file.entries[n].type
        /\ \A n \in 1..Len(exp.file.entries) :
              \E m \in 1..Len(src.nodes) :
                  LET raw == src.nodes[m].type
                      out == exp.file.entries[n].type
                      seps == {i \in 2..(Len(raw) - 3) :
                                  raw[i] = "--" /\ raw[i + 2] = "--" /\ raw[i + 1] \in DigitToks}
                  IN /\ src.nodes[m].handle = exp.file.entries[n].handle
                     /\ seps = {} => out = raw
                     /\ seps # {} =>
                           \E i \in seps :
                               /\ \A j \in seps : i <= j
                               /\ out = <<"$">> \o SubSeq(raw, 1, i - 1) \o <<":">>
                                            \o SubSeq(raw, i + 3, Len(raw))

\* C22: a field whose value is a 'handle://shopify/' string of an unrecognised kind, or a
\* Metaobject string without a type segment, is sent to the destination with that string
\* as its value, and an import in which no remote request fails raises no exception
C22_UnparseableRefIsLiteral ==
    LET literal(val) ==
            /\ val.k = "str"
            /\ startsWith(val.v, HandlePrefix)
            /\ (refKind(val.v) \notin {<<k>> : k \in KnownKinds} \/ typeSegmentMissing(val.v))
    IN /\ \A n \in 1..Len(log), m \in 1..Len(doc) :
              (log[n].op = "upsert" /\ log[n].key = entryKey(doc[m])) =>
                  \A i \in 1..Len(doc[m].fields) :
                      literal(doc[m].fields[i].val) =>
                          \E j \in 1..Len(log[n].fields) :
                              /\ log[n].fields[j].key = doc[m].fields[i].key
                              /\ log[n].fields[j].value = doc[m].fields[i].val.v
       /\ (mode \in {"full", "one"} /\ faults = 0) => pc # "raised"

\* C23: toHandleRef gives no reference exactly for the resources that lack a natural-key
\* field, and every reference it gave is parsed by the importing resolver into the kind
\* and the natural-key components of the resource it was made from
C23_RefParsesBack ==
    LET resources ==
            UNION {UNION {range(src.nodes[m].fields[i].reference
                                \o src.nodes[m].fields[i].references) :
                             i \in 1..Len(src.nodes[m].fields)} : m \in 1..Len(src.nodes)}
        complete(r) ==
            CASE r.typename = "Metaobject" -> r.handle # <<>> /\ r.type # <<>>
              [] r.typename = "ProductVariant" -> r.productHandle # <<>> /\ r.sku # <<>>
              [] OTHER -> r.handle # <<>>
        grpOf(r) ==
            CASE r.typename = "Metaobject" -> "metaobjects"
              [] r.typename = "ProductVariant" -> "variants"
              [] r.typename = "Product" -> "products"
              [] r.typename = "Page" -> "pages"
              [] OTHER -> "collections"
        parsesTo(q, ref, r) ==
            /\ q.grp = grpOf(r)
            /\ r.typename = "Metaobject" =>
                  q.key = normaliseMetaobjectType(r.type) /\ refTail(ref, 2) = r.handle
            /\ r.typename = "ProductVariant" =>
                  q.key = r.productHandle /\ refTail(ref, 2) = r.sku
            /\ r.typename \in {"Product", "Page", "Collection"} => refTail(ref, 1) = r.handle
    IN mode = "roundtrip" =>
          /\ \A r \in resources : (toHandleRef(r) = <<>>) <=> ~complete(r)
          /\ \A n \in 1..Len(bulk.queue) : \A k \in 1..Len(bulk.queue[n].refs) :
                \E r \in resources :
                    /\ toHandleRef(r) = bulk.queue[n].refs[k]
                    /\ parsesTo(bulk.queue[n], bulk.queue[n].refs[k], r)

\* C24: while an import runs in which no remote request fails, every answer its resolver
\* holds for a product, variant, collection or page reference is the answer of the
\* destination as it is now, whatever an earlier import of the document was answered
C24_RunHasOwnCache ==
    (mode \in {"full", "one"} /\ faults = 0 /\ pc \notin {"idle", "finished", "aborted"}) =>
        \A r \in DOMAIN cache :
            refKind(r)[1] \in {"Product", "ProductVariant", "Collection", "Page"} =>
                cache[r] = storeAnswer(r, store, nextId)

C24_Witness ==
    /\ mode = "full"
    /\ calls = 1
    /\ changes = 1
    /\ faults = 0
    /\ pc = "phaseA"
    /\ hasKey(cache, RefProductB)
    /\ cache[RefProductB] = Gid("Product", nextId - 1)
    /\ \E n \in 1..Len(log) : log[n].op = "resolve" /\ log[n].grp = "products"

\* C28: a resolveBulk call that has returned issued one request for each of the kinds
\* Product, Collection and Page present among its uncached references, one per distinct
\* normalised type of its uncached Metaobject references, one per distinct parent product
\* of its uncached ProductVariant references and one per uncached MediaImage reference
C28_RequestCount ==
    LET u == bulk.uncached
        at(kind) == {i \in 1..Len(u) : startsWith(u[i], HandlePrefix) /\ refKind(u[i]) = <<kind>>}
        one(kind) == IF at(kind) = {} THEN 0 ELSE 1
        types == {normaliseMetaobjectType(refParts(u[i])[2]) : i \in at("Metaobject")}
        parents == {refParts(u[i])[2] : i \in at("ProductVariant")}
    IN (bulk.ret # "none" /\ Len(bulk.queue) = 0 /\ ~groupRefsThrows(u)) =>
          bulk.issued = one("Product") + one("Collection") + one("Page") + Cardinality(types)
                        + Cardinality(parents) + Cardinality(at("MediaImage"))

\* C29: every progress record of resolveBulk that carries apiCallsCount carries the number
\* of remote requests the call had issued when the record was emitted, failed requests
\* included, and so does the final record
C29_ApiCallsCountMatches ==
    /\ \A rec \in bulk.emitted : rec.api = rec.issued
    /\ (bulk.ret # "none" /\ Len(bulk.queue) = 0) => bulk.api = bulk.issued

\* C30: the request for the variants of one parent product gives every variant reference
\* under that product null when the product does not exist or the request fails, and the
\* store's variant otherwise; resolveBulk carries on, and the results of the references
\* under other products stay as they were
C30_VariantParentFailureIsLocal ==
    [][(Len(bulk.queue) > 0 /\ Len(bulk'.queue) = Len(bulk.queue) - 1
        /\ Head(bulk.queue).grp = "variants") =>
          LET q == Head(bulk.queue)
              parent == \E e \in store : e.kind = "Product" /\ e.k1 = q.key
              variant(r) == {e \in store : /\ e.kind = "ProductVariant"
                                           /\ e.k1 = q.key
                                           /\ e.k2 = refTail(r, 2)}
          IN /\ pc' \in {"bulk", "ridle", "phaseA", "groupB"}
             /\ \A r \in range(q.refs) :
                   /\ refParts(r)[2] = q.key
                   /\ r \in DOMAIN bulk'.results
                   /\ (faults' > faults \/ ~parent \/ variant(r) = {}) =>
                         bulk'.results[r] = NullId
                   /\ (faults' = faults /\ parent /\ variant(r) # {}) =>
                         \E e \in variant(r) : bulk'.results[r] = e.id
             /\ \A r \in DOMAIN bulk.results :
                   r \notin range(q.refs) =>
                       r \in DOMAIN bulk'.results /\ bulk'.results[r] = bulk.results[r]]_vars

C30_Witness ==
    /\ mode = "resolver"
    /\ pc = "ridle"
    /\ bulk.issued = 2
    /\ \A e \in store : ~(e.kind = "Product" /\ e.k1 = <<"b">>)
    /\ hasKey(bulk.results, <<HandlePrefix, "ProductVariant", "/", "b", "/", "s1">>)
    /\ bulk.results[<<HandlePrefix, "ProductVariant", "/", "b", "/", "s1">>] = NullId
    /\ hasKey(bulk.results, <<HandlePrefix, "ProductVariant", "/", "b", "/", "s2">>)
    /\ bulk.results[<<HandlePrefix, "ProductVariant", "/", "b", "/", "s2">>] = NullId
    /\ hasKey(bulk.results, RefVariantAS1)
    /\ bulk.results[RefVariantAS1] = Gid("ProductVariant", 2)
\* C25: ShopifyGraphQLClient.request posts at most maxRetries + 1 times; while it is still
\* retrying it has used at most maxRetries attempts, and a request whose last attempt ended
\* in a retryable failure (HTTP 429, HTTP 5xx, a THROTTLED error code) has raised to its
\* caller after exactly maxRetries + 1 attempts
C25_BoundedAttempts ==
    mode = "fetch" /\ req.posts > 0 =>
        LET o == req.last
            retryable == ~o.net /\ (\/ o.status = 429
                                    \/ o.status >= 500
                                    \/ o.parsable /\ \E i \in 1..Len(o.errors) :
                                                        o.errors[i] = "THROTTLED")
        IN /\ req.posts <= req.maxRetries + 1
           /\ req.state = "pending" => retryable /\ req.posts = req.attempt
                                                 /\ req.attempt <= req.maxRetries
           /\ req.state # "pending" /\ retryable =>
                 req.state = "raised" /\ req.posts = req.maxRetries + 1

C25_Witness ==
    /\ mode = "fetch"
    /\ req.state = "raised"
    /\ req.maxRetries = 2
    /\ req.posts = 3
    /\ req.last.status = 429

\* C26: an attempt answered with a status that is neither 429 nor 5xx and a body without a
\* THROTTLED code ends the request at that attempt and hands the caller the body, data and
\* errors as received; an attempt that fails with a network error or an unparsable body
\* ends the request at that attempt by raising.  Answered so at the first attempt, the
\* request has made exactly one
C26_NonRetryableEndsRequest ==
    [][mode = "fetch" /\ req'.posts = req.posts + 1 =>
          LET o == req'.last
              retryable == ~o.net /\ (\/ o.status = 429
                                      \/ o.status >= 500
                                      \/ o.parsable /\ \E i \in 1..Len(o.errors) :
                                                          o.errors[i] = "THROTTLED")
          IN /\ ~o.net /\ o.parsable /\ ~retryable =>
                   /\ req'.state = "returned"
                   /\ req'.json = [data |-> o.data, errors |-> o.errors]
                   /\ req'.attempt = req.attempt
                   /\ req.posts = 0 => req'.posts = 1
             /\ o.net \/ (~o.parsable /\ ~retryable) =>
                   /\ req'.state = "raised"
                   /\ req'.attempt = req.attempt
                   /\ req.posts = 0 => req'.posts = 1]_vars

C26_Witness ==
    /\ mode = "fetch"
    /\ req.state = "returned"
    /\ req.maxRetries = 2
    /\ req.posts = 1
    /\ req.last.status = 401
    /\ req.json.errors = <<"ACCESS_DENIED">>

\* C27: every back reference collected from the referencedBy edges, from the node itself or
\* from the fetched pages, has an owner of kind Product, ProductVariant, Collection or Page
\* and stems from an edge whose referencer is of that kind; an edge whose referencer is a
\* Metaobject has produced none
C27_BackReferenceOwnerKinds ==
    mode = "fetch" =>
        \A b \in {req.initial[i] : i \in 1..Len(req.initial)}
                 \cup {req.results[i] : i \in 1..Len(req.results)} :
            /\ b.ownerType \in {"Product", "ProductVariant", "Collection", "Page"}
            /\ \E p \in 1..Len(req.pages) : \E k \in 1..Len(req.pages[p]) :
                  LET e == req.pages[p][k]
                  IN /\ e.namespace = b.namespace
                     /\ e.key = b.key
                     /\ e.referencer.typename = b.ownerType
                     /\ b.owner \in {toHandleRef(e.referencer), e.referencer.id}
            /\ \A p \in 1..Len(req.pages) : \A k \in 1..Len(req.pages[p]) :
                  req.pages[p][k].referencer.typename = "Metaobject" =>
                      req.pages[p][k].key # b.key

C27_Witness ==
    /\ mode = "fetch"
    /\ pc = "done"
    /\ Len(req.pages) = 2
    /\ Len(req.initial) = 1
    /\ Len(req.results) = 4
    /\ \E k \in 1..Len(req.pages[1]) : req.pages[1][k].referencer.typename = "Metaobject"

\* C31: metafieldsSetBatch over N items issues its requests in order, request j carrying
\* the inputs of items 25(j-1)+1 .. min(25j, N) and nothing else; the errors it holds are
\* the user errors of the requests made so far, in order; and unless a request has raised,
\* a batch that is over has issued ceil(N/25) requests
C31_BatchChunksInOrder ==
    mode \in {"full", "one"} /\ Len(phaseB.items) > 0 =>
        LET N == Len(phaseB.items)
            inputs == [n \in 1..N |-> metafieldInput(phaseB.items[n])]
            reqs == SelectSeq(log, LAMBDA l : l.op = "metafieldsSet")
            upTo(j) == IF ChunkSize * j < N THEN ChunkSize * j ELSE N
            errors[j \in 0..Len(reqs)] ==
                IF j = 0 THEN <<>> ELSE errors[j - 1] \o reqs[j].userErrors
        IN /\ Len(reqs) = phaseB.sent
           /\ Len(reqs) <= (N + ChunkSize - 1) \div ChunkSize
           /\ \A j \in 1..Len(reqs) :
                 /\ reqs[j].fields = SubSeq(inputs, ChunkSize * (j - 1) + 1, upTo(j))
                 /\ Len(reqs[j].fields) \in 1..ChunkSize
           /\ phaseB.allErrors = errors[Len(reqs)]
           /\ (pc # "chunks" /\ ~\E j \in 1..Len(reqs) : reqs[j].raised) =>
                 Len(reqs) = (N + ChunkSize - 1) \div ChunkSize

C31_Witness ==
    /\ mode = "full"
    /\ pc = "finished"
    /\ Len(phaseB.items) = ChunkSize + 1
    /\ phaseB.sent = 2
    /\ Len(log[Len(log)].fields) = 1
    /\ Len(log[Len(log) - 1].fields) = ChunkSize
    /\ Len(phaseB.allErrors) = 1

\* C32: fetchAllMetaobjects makes its first request without cursor and each next one with
\* the endCursor of the page just received, never going past the first page that reports
\* hasNextPage = false; when it returns after every request was answered with a page, it
\* has made k requests, k the number of pages up to that page, and returns the nodes of
\* these k pages in order
C32_FetchesEveryPageOnce ==
    mode = "pages" /\ Len(req.sent) > 0 =>
        LET k == CHOOSE p \in 1..Len(req.pages) :
                    /\ ~req.pages[p].hasNextPage
                    /\ \A q \in 1..(p - 1) : req.pages[q].hasNextPage
            nodes[j \in 0..k] == IF j = 0 THEN <<>> ELSE nodes[j - 1] \o req.pages[j].nodes
        IN /\ req.sent[1] = 0
           /\ \A j \in 2..Len(req.sent) : req.sent[j] = req.pages[j - 1].endCursor
           /\ Len(req.sent) <= k
           /\ pc = "done" /\ req.json.data =>
                 /\ Len(req.sent) = k
                 /\ req.results = nodes[k]

C32_Witness ==
    /\ mode = "pages"
    /\ pc = "done"
    /\ req.sent = <<0, 1, 2>>
    /\ Len(req.results) = 5
    /\ req.results[3].handle = <<"h3">>

\* C33: in a portable export the value of a field with a list of references is a list
\* holding the symbolic reference of each referenced resource, in source order, and the
\* value of a field with a single reference to a resource that has a symbolic reference
\* is that reference
C33_ExportKeepsCardinality ==
    mode = "roundtrip" /\ ~exp.retainIds =>
        \A n \in 1..Len(exp.entries) : \A m \in 1..Len(src.nodes) :
            (/\ exp.entries[n].type = normaliseMetaobjectType(src.nodes[m].type)
             /\ exp.entries[n].handle = src.nodes[m].handle) =>
                \A i \in 1..Len(src.nodes[m].fields) :
                    LET f == src.nodes[m].fields[i]
                        v == exp.entries[n].fields[i].val
                    IN /\ Len(f.references) > 0 =>
                             /\ v.k = "arr"
                             /\ Len(v.v) = Len(f.references)
                             /\ \A j \in 1..Len(f.references) :
                                   j <= Len(v.v) /\ v.v[j] = Str(toHandleRef(f.references[j]))
                       /\ (Len(f.references) = 0 /\ Len(f.reference) = 1
                              /\ toHandleRef(f.reference[1]) # <<>>) =>
                             v = Str(toHandleRef(f.reference[1]))

\* C34: in the document written by a portable export, an entry that lies on a cycle of
\* Metaobject references, or that refers to a Metaobject which is no entry of the document,
\* comes after every entry that is neither such an entry nor depends on one, and these
\* entries stand in the order in which they were fetched
C34_LeftoversComeLast ==
    LET es == exp.file.entries
        n == Len(es)
        dep(a, b) == keyFor(es[b]) \in range(fieldRefs(es[a]))
        reach(a, b) == \E k \in 2..(n + 1) : \E f \in [1..k -> 1..n] :
                          /\ f[1] = a
                          /\ f[k] = b
                          /\ \A i \in 1..(k - 1) : dep(f[i], f[i + 1])
        absent(a) == \E r \in range(fieldRefs(es[a])) :
                        isMetaobjectRef(r) /\ \A b \in 1..n : keyFor(es[b]) # r
        leftover(a) == reach(a, a) \/ absent(a)
        sorted(a) == ~leftover(a) /\ \A b \in 1..n : leftover(b) => ~reach(a, b)
        pos(a) == CHOOSE i \in 1..Len(exp.entries) : exp.entries[i] = es[a]
    IN (mode = "roundtrip" /\ exp.file.written /\ ~exp.retainIds) =>
           /\ \A a, b \in 1..n : leftover(a) /\ sorted(b) => b < a
           /\ \A a, b \in 1..n : leftover(a) /\ leftover(b) /\ a < b => pos(a) < pos(b)

\* C35: an entry whose status is backreferences-completed has a created identifier, and
\* every back reference it declares has an owner that resolved and is held by the
\* destination: the metafield (owner, namespace, key) is there and its value is, or lists,
\* the identifier of the entry's record
C35_CompletedMeansWritten ==
    mode \in {"full", "one"} =>
        \A i \in 1..Len(doc) :
            (hasKey(status, i - 1) /\ status[i - 1] = "backreferences-completed") =>
                /\ hasKey(createdIds, entryKey(doc[i]))
                /\ \A j \in 1..Len(backRefsOf(doc[i])) :
                      LET br == backRefsOf(doc[i])[j]
                          owner == ownerIdOf(br.owner, bulk.results)
                          id == createdIds[entryKey(doc[i])]
                      IN /\ owner \notin {NullId, <<>>}
                         /\ \E m \in metafields :
                               /\ m.ownerId = owner
                               /\ m.namespace = normaliseAppNamespace(br.namespace)
                               /\ m.key = br.key
                               /\ IF m.type = "metaobject_reference" THEN m.value = id
                                  ELSE Str(id) \in range(tryParseJson(m.value).v)

\* C36: while runImport groups and writes the back references, an entry becomes failed
\* only if its record has no identifier, or one of its owners did not resolve, or a
\* metafieldsSet request that carried one of its groups answered with user errors
C36_FailedOnlyForOwnWrites ==
    [][(mode = "full" /\ pc \in {"groupB", "chunks"}) =>
          \A i \in 1..Len(doc) :
              (/\ hasKey(status', i - 1) /\ status'[i - 1] = "failed"
               /\ ~(hasKey(status, i - 1) /\ status[i - 1] = "failed")) =>
                  \/ ~hasKey(createdIds, entryKey(doc[i]))
                  \/ \E j \in 1..Len(backRefsOf(doc[i])) :
                        ownerIdOf(backRefsOf(doc[i])[j].owner, bulk.results) \in {NullId, <<>>}
                  \/ \E k \in 1..Len(log') :
                        /\ log'[k].op = "metafieldsSet"
                        /\ log'[k].userErrors # <<>>
                        /\ \E n \in 1..Len(log'[k].fields) :
                              \E j \in 1..Len(backRefsOf(doc[i])) :
                                 LET br == backRefsOf(doc[i])[j]
                                     x == log'[k].fields[n]
                                 IN /\ x.ownerId = ownerIdOf(br.owner, bulk.results)
                                    /\ x.namespace = normaliseAppNamespace(br.namespace)
                                    /\ x.key = br.key]_vars

\* C37: in runImport no resolution request is issued after an upsert request: whatever
\* the transforms of Phase A and the owner resolution of Phase B ask the resolver is
\* answered from its cache
C37_ResolutionBeforeUpserts ==
    mode = "full" =>
        \A j, k \in 1..Len(log) :
            (j < k /\ log[j].op = "upsert") => log[k].op # "resolve"

C37_Witness ==
    /\ mode = "full"
    /\ pc = "finished"
    /\ Len(doc) = 3
    /\ bulk.ret = "owners"
    /\ phaseB.sent > 0
    /\ Cardinality(DOMAIN createdIds) = 3
    /\ \E k \in 1..Len(log) : log[k].op = "resolve"
    /\ \E k \in 1..Len(log) :
          /\ log[k].op = "upsert"
          /\ \E n \in 1..Len(log[k].fields) : startsWith(log[k].fields[n].value, GidPrefix)

\* C38: every upsert request carries each field of its entry whose value holds no symbolic
\* reference at any depth, with the value the document has for it
C38_PlainFieldsSentUnchanged ==
    mode \in {"full", "one"} =>
        \A k \in 1..Len(log) : log[k].op = "upsert" =>
            \A i \in 1..Len(doc) : entryKey(doc[i]) = log[k].key =>
                \A n \in 1..Len(doc[i].fields) :
                    collectHandleRefsFromValue(doc[i].fields[n].val) = <<>> =>
                        \E x \in 1..Len(log[k].fields) :
                            /\ log[k].fields[x].key = doc[i].fields[n].key
                            /\ log[k].fields[x].value = serialiseField(doc[i].fields[n].val)

\* C39: every back-reference write of runImportOne has the shape, single reference or
\* list, that runImport gives the same (owner, namespace, key) when it imports the whole
\* document into the same destination with every record created
C39_SameShapeAsRunImport ==
    mode = "one" =>
        LET pending == pendingOf(doc)
            owners == {pending[j].ownerRef : j \in 1..Len(pending)}
            resolutions == [r \in {o \in owners : startsWith(o, HandlePrefix)} |->
                               storeAnswer(r, store, nextId)]
            created == [key \in {entryKey(doc[i]) : i \in 1..Len(doc)} |->
                           IF hasKey(createdIds, key) THEN createdIds[key]
                           ELSE <<GidPrefix, "Metaobject", "/">> \o key]
            full == itemsOf(groupPending(pending, resolutions, created, EmptyMap, <<>>).groups)
        IN \A k \in 1..Len(log) : log[k].op = "metafieldsSet" =>
              \A n \in 1..Len(log[k].fields) : \A m \in 1..Len(full) :
                  (/\ full[m].ownerId = log[k].fields[n].ownerId
                   /\ full[m].namespace = log[k].fields[n].namespace
                   /\ full[m].key = log[k].fields[n].key) =>
                      (full[m].isList <=> log[k].fields[n].type = "list.metaobject_reference")

====
